---- MODULE Spec2Model ----
(***************************************************************************)
(* cal_exporter: hashtag extraction, search-term parsing, the hashtag      *)
(* filter, the date-range overlap filter and the date-range parser         *)
(* (src/cal_exporter/filters.py) over CalendarEvent objects                *)
(* (src/cal_exporter/models.py), and the command (src/cal_exporter/cli.py).*)
(*                                                                         *)
(* A Python str is a sequence of one-character strings; None is the model  *)
(* value NoneVal.  A CalendarEvent object is an entry of the heap `events` *)
(* and a Python list of events is a sequence of references (heap indices), *)
(* so that the in-place assignment event.hashtags = ... of filter_events   *)
(* is visible through every list that holds the object.                    *)
(***************************************************************************)
EXTENDS Integers, Sequences, FiniteSets, TLC

VARIABLES
    pc,             \* position of the calling code
    text,           \* argument of extract_hashtags (a str or None)
    tags,           \* value returned by extract_hashtags
    hashtag_terms,  \* the search terms (the `hashtags` argument of the filters' callers)
    groups,         \* value returned by _parse_hashtag_groups
    events,         \* heap of CalendarEvent objects
    input,          \* the list of events the caller holds (references)
    arg,            \* the list handed to the last filter call
    before,         \* the heap as it was when the last filter call began
    result,         \* the list returned by the last filter call
    first,          \* result and heap of the first filter_events call, once a second was made
    range_start,    \* `start` argument of filter_by_date_range
    range_end,      \* `end` argument of filter_by_date_range
    called,         \* the function the calling code called last
    raised,         \* the exception that call raised, or "none"
    date_string,    \* argument of parse_date_range
    now,            \* the local date and time, datetime.now(tzlocal())
    date_range,     \* what parse_date_range returned: <<start, end>>, or <<>>
    calls,          \* the strings parse_date_range handed to _parse_single_date, in order
    message,        \* the message of the exception that call raised
    params,         \* the options of the command line as click hands them to main
    world,          \* what main's collaborators do in this run
    trace,          \* the steps of the pipeline main has begun, in order
    exit_code,      \* the exit code of the command
    export,         \* main's variable `export` when main ended
    terminal        \* main's variable `terminal` when main ended

parserVars == <<date_string, now, date_range, calls, message>>

cliVars == <<params, world, trace, exit_code, export, terminal>>

vars == <<pc, text, tags, hashtag_terms, groups, events, input, arg, before,
          result, first, range_start, range_end, called, raised, parserVars,
          cliVars>>

\* None where a str is expected: no str, since every element of a str is one
\* character.
NoneVal == <<"None">>

----------------------------------------------------------------------------
(* Bounds of the model.                                                    *)

MaxTextLen == 5     \* longest text handed to extract_hashtags
MaxTermChars == 4   \* most characters in the search terms of one call of _parse_hashtag_groups
MaxTerms == 2       \* most search terms in one call
MaxEvents == 2      \* most events in one list
MaxTime == 2        \* instants are 0..MaxTime
MaxPad == 1         \* most spaces on either side of a date string

----------------------------------------------------------------------------
(* Characters and strings.                                                 *)

\* The characters the model's strings are made of: a hash, letters in both
\* cases, white space and the comma.
Chars == {"#", "a", "A", " ", ","}

\* \w of the re module: letters, digits and the underscore.
IsWord(c) == c \in {"a", "A", "b", "B", "x", "_", "1"}

\* What str.strip() removes.
IsSpace(c) == c = " "

\* str.lower() on one character.
LowerChar(c) ==
    CASE c = "A" -> "a"
      [] c = "B" -> "b"
      [] c = "C" -> "c"
      [] c = "D" -> "d"
      [] c = "O" -> "o"
      [] c = "S" -> "s"
      [] c = "T" -> "t"
      [] c = "V" -> "v"
      [] c = "Y" -> "y"
      [] OTHER -> c

\* str.lower()
Lower(s) == [i \in 1..Len(s) |-> LowerChar(s[i])]

\* All strings over the character set cs of length at most n.
StringsUpTo(cs, n) == UNION {[1..k -> cs] : k \in 0..n}

\* All sequences over the set S of length at most n.
SeqsUpTo(S, n) == UNION {[1..k -> S] : k \in 0..n}

----------------------------------------------------------------------------
(* extract_hashtags                                                        *)

\* End of the greedy match of \w+ that begins at position i (i - 1 when no
\* word character stands at i).
RECURSIVE WordRunEnd(_, _)
WordRunEnd(s, i) ==
    IF i <= Len(s) /\ IsWord(s[i]) THEN WordRunEnd(s, i + 1) ELSE i - 1

\* re.findall(r'#\w+', s): the scan from position i on.  At each position the
\* pattern is tried; on a match the scan resumes behind it, otherwise at the
\* next position.
RECURSIVE FindAllFrom(_, _)
FindAllFrom(s, i) ==
    IF i > Len(s) THEN <<>>
    ELSE IF s[i] = "#" /\ WordRunEnd(s, i + 1) >= i + 1
         THEN <<SubSeq(s, i, WordRunEnd(s, i + 1))>>
                  \o FindAllFrom(s, WordRunEnd(s, i + 1) + 1)
         ELSE FindAllFrom(s, i + 1)

\* extract_hashtags that lowercases what it finds.
extract_hashtags_lowercased(t) ==
    IF t = NoneVal \/ t = <<>> THEN <<>>
    ELSE [k \in 1..Len(FindAllFrom(t, 1)) |-> Lower(FindAllFrom(t, 1)[k])]

extract_hashtags(t) ==
    IF t = NoneVal \/ t = <<>> THEN <<>> ELSE FindAllFrom(t, 1)

----------------------------------------------------------------------------
(* _normalize_hashtag and _parse_hashtag_groups                            *)

\* str.lstrip() and str.rstrip(), which together are str.strip()
RECURSIVE LStrip(_)
LStrip(s) == IF s # <<>> /\ IsSpace(Head(s)) THEN LStrip(Tail(s)) ELSE s

RECURSIVE RStrip(_)
RStrip(s) ==
    IF s # <<>> /\ IsSpace(s[Len(s)]) THEN RStrip(SubSeq(s, 1, Len(s) - 1)) ELSE s

Strip(s) == RStrip(LStrip(s))

\* str.startswith("#")
StartsWithHash(s) == s # <<>> /\ Head(s) = "#"

\* _normalize_hashtag without the lowercasing.
NormalizeKeepCase(tag) ==
    LET stripped == Strip(tag)
    IN  IF ~StartsWithHash(stripped) THEN <<"#">> \o stripped ELSE stripped

_normalize_hashtag(tag) ==
    LET stripped == Strip(tag)
        hashed == IF ~StartsWithHash(stripped) THEN <<"#">> \o stripped ELSE stripped
    IN  Lower(hashed)

\* "," in s
HasComma(s) == \E i \in 1..Len(s) : s[i] = ","

\* s.split(","): the pieces between the commas, empty pieces included.
RECURSIVE Split(_)
Split(s) ==
    IF ~HasComma(s) THEN <<s>>
    ELSE LET k == CHOOSE i \in 1..Len(s) :
                      s[i] = "," /\ \A j \in 1..(i - 1) : s[j] # ","
         IN  <<SubSeq(s, 1, k - 1)>> \o Split(SubSeq(s, k + 1, Len(s)))

\* _parse_hashtag_groups that leaves out the empty pieces of a term.
ParseGroupsSkipEmpty(hashtags) ==
    [n \in 1..Len(hashtags) |->
        LET search_term == hashtags[n] IN
        IF HasComma(search_term)
        THEN {_normalize_hashtag(Split(search_term)[k]) :
                  k \in {j \in 1..Len(Split(search_term)) :
                            Strip(Split(search_term)[j]) # <<>>}}
        ELSE {_normalize_hashtag(search_term)}]

\* One AND group per search term, in the order of the terms.
_parse_hashtag_groups(hashtags) ==
    [n \in 1..Len(hashtags) |->
        LET search_term == hashtags[n] IN
        IF HasComma(search_term)
        THEN {_normalize_hashtag(Split(search_term)[k]) :
                  k \in 1..Len(Split(search_term))}
        ELSE {_normalize_hashtag(search_term)}]

\* None where a list of str is expected: no list of str, since NoneVal is no str.
NoneList == <<NoneVal>>

\* A call of _parse_hashtag_groups that takes None for an empty list.
ParseGroupsCallNoneAsEmpty(hashtags) ==
    IF hashtags = NoneList THEN [raised |-> "none", returned |-> <<>>]
    ELSE [raised |-> "none", returned |-> _parse_hashtag_groups(hashtags)]

\* A call of _parse_hashtag_groups: what it raises and what it returns.  The
\* loop `for search_term in hashtags` raises TypeError when hashtags is None.
ParseGroupsCall(hashtags) ==
    IF hashtags = NoneList THEN [raised |-> "TypeError", returned |-> <<>>]
    ELSE [raised |-> "none", returned |-> _parse_hashtag_groups(hashtags)]

----------------------------------------------------------------------------
(* CalendarEvent and the two filters                                       *)

\* A CalendarEvent as a fetcher or a test builds it.
CalendarEvent(uid, start, end, description, hashtags) ==
    [summary |-> <<"E">>, start |-> start, end |-> end,
     description |-> description, location |-> NoneVal, uid |-> uid,
     hashtags |-> hashtags]

\* {t.lower() for t in event_hashtags}
LowerSet(event_hashtags) ==
    {Lower(event_hashtags[k]) : k \in 1..Len(event_hashtags)}

\* AnyGroupMatches with AND between the groups: every group must be satisfied.
RECURSIVE AllGroupsMatch(_, _, _)
AllGroupsMatch(hashtag_groups, k, event_hashtags_lower) ==
    IF k > Len(hashtag_groups) THEN TRUE
    ELSE IF ~(hashtag_groups[k] \subseteq event_hashtags_lower) THEN FALSE
    ELSE AllGroupsMatch(hashtag_groups, k + 1, event_hashtags_lower)

\* AnyGroupMatches that asks the first group only.
FirstGroupMatches(hashtag_groups, k, event_hashtags_lower) ==
    /\ k <= Len(hashtag_groups)
    /\ hashtag_groups[k] \subseteq event_hashtags_lower

\* The loop over hashtag_groups of filter_events, from group k on: TRUE as soon
\* as one AND group is a subset of the event's lowercased hashtags (the break).
RECURSIVE AnyGroupMatches(_, _, _)
AnyGroupMatches(hashtag_groups, k, event_hashtags_lower) ==
    IF k > Len(hashtag_groups) THEN FALSE
    ELSE IF hashtag_groups[k] \subseteq event_hashtags_lower THEN TRUE
    ELSE AnyGroupMatches(hashtag_groups, k + 1, event_hashtags_lower)

\* The groups from group k on that the event satisfies.
RECURSIVE MatchingGroups(_, _, _)
MatchingGroups(hashtag_groups, k, event_hashtags_lower) ==
    IF k > Len(hashtag_groups) THEN 0
    ELSE (IF hashtag_groups[k] \subseteq event_hashtags_lower THEN 1 ELSE 0)
             + MatchingGroups(hashtag_groups, k + 1, event_hashtags_lower)

\* FilterLoop that stores the lowercased hashtags it matched with.
RECURSIVE FilterLoopStoreLower(_, _, _, _, _)
FilterLoopStoreLower(heap, list, i, hashtag_groups, filtered) ==
    IF i > Len(list) THEN [heap |-> heap, returned |-> filtered]
    ELSE LET event == list[i]
             event_hashtags == extract_hashtags(heap[event].description)
             matches == AnyGroupMatches(hashtag_groups, 1, LowerSet(event_hashtags))
         IN  IF matches
             THEN FilterLoopStoreLower(
                      [heap EXCEPT ![event].hashtags =
                          [k \in 1..Len(event_hashtags) |-> Lower(event_hashtags[k])]],
                      list, i + 1, hashtag_groups, Append(filtered, event))
             ELSE FilterLoopStoreLower(heap, list, i + 1, hashtag_groups, filtered)

\* FilterLoop that puts a matching event at the front of `filtered`.
RECURSIVE FilterLoopPrepend(_, _, _, _, _)
FilterLoopPrepend(heap, list, i, hashtag_groups, filtered) ==
    IF i > Len(list) THEN [heap |-> heap, returned |-> filtered]
    ELSE LET event == list[i]
             event_hashtags == extract_hashtags(heap[event].description)
             matches == AnyGroupMatches(hashtag_groups, 1, LowerSet(event_hashtags))
         IN  IF matches
             THEN FilterLoopPrepend([heap EXCEPT ![event].hashtags = event_hashtags],
                                    list, i + 1, hashtag_groups, <<event>> \o filtered)
             ELSE FilterLoopPrepend(heap, list, i + 1, hashtag_groups, filtered)

\* FilterLoop without the break: the event is appended once per satisfied group.
RECURSIVE FilterLoopNoBreak(_, _, _, _, _)
FilterLoopNoBreak(heap, list, i, hashtag_groups, filtered) ==
    IF i > Len(list) THEN [heap |-> heap, returned |-> filtered]
    ELSE LET event == list[i]
             event_hashtags == extract_hashtags(heap[event].description)
             n == MatchingGroups(hashtag_groups, 1, LowerSet(event_hashtags))
         IN  IF n > 0
             THEN FilterLoopNoBreak([heap EXCEPT ![event].hashtags = event_hashtags],
                                    list, i + 1, hashtag_groups,
                                    filtered \o [k \in 1..n |-> event])
             ELSE FilterLoopNoBreak(heap, list, i + 1, hashtag_groups, filtered)

\* FilterLoop that assigns the hashtags field of every event it looks at,
\* matching or not.
RECURSIVE FilterLoopAssignAlways(_, _, _, _, _)
FilterLoopAssignAlways(heap, list, i, hashtag_groups, filtered) ==
    IF i > Len(list) THEN [heap |-> heap, returned |-> filtered]
    ELSE LET event == list[i]
             event_hashtags == extract_hashtags(heap[event].description)
             matches == AnyGroupMatches(hashtag_groups, 1, LowerSet(event_hashtags))
             assigned == [heap EXCEPT ![event].hashtags = event_hashtags]
         IN  IF matches
             THEN FilterLoopAssignAlways(assigned, list, i + 1, hashtag_groups,
                                         Append(filtered, event))
             ELSE FilterLoopAssignAlways(assigned, list, i + 1, hashtag_groups,
                                         filtered)

\* The loop over events of filter_events, from position i of the list on, with
\* the heap and the list `filtered` built so far: a matching event gets its
\* hashtags field assigned and is appended.
RECURSIVE FilterLoop(_, _, _, _, _)
FilterLoop(heap, list, i, hashtag_groups, filtered) ==
    IF i > Len(list) THEN [heap |-> heap, returned |-> filtered]
    ELSE LET event == list[i]
             event_hashtags == extract_hashtags(heap[event].description)
             matches == AnyGroupMatches(hashtag_groups, 1, LowerSet(event_hashtags))
         IN  IF matches
             THEN FilterLoop([heap EXCEPT ![event].hashtags = event_hashtags],
                             list, i + 1, hashtag_groups, Append(filtered, event))
             ELSE FilterLoop(heap, list, i + 1, hashtag_groups, filtered)

\* filter_events without the early return for an empty list of search terms.
filter_events_no_early_return(heap, list, hashtags) ==
    FilterLoop(heap, list, 1, _parse_hashtag_groups(hashtags), <<>>)

\* filter_events(list, hashtags) on the heap: the heap it leaves and the list
\* it returns (the list it was given when there are no search terms).
filter_events(heap, list, hashtags) ==
    IF hashtags = <<>> THEN [heap |-> heap, returned |-> list]
    ELSE FilterLoop(heap, list, 1, _parse_hashtag_groups(hashtags), <<>>)

\* DateLoop with both bounds exclusive.
RECURSIVE DateLoopExclusive(_, _, _, _, _, _)
DateLoopExclusive(heap, list, i, start, end, filtered) ==
    IF i > Len(list) THEN filtered
    ELSE IF heap[list[i]].start < end /\ heap[list[i]].end > start
         THEN DateLoopExclusive(heap, list, i + 1, start, end, Append(filtered, list[i]))
         ELSE DateLoopExclusive(heap, list, i + 1, start, end, filtered)

\* DateLoop that keeps the events lying within the range instead of the
\* events overlapping it.
RECURSIVE DateLoopWithin(_, _, _, _, _, _)
DateLoopWithin(heap, list, i, start, end, filtered) ==
    IF i > Len(list) THEN filtered
    ELSE IF heap[list[i]].start >= start /\ heap[list[i]].end <= end
         THEN DateLoopWithin(heap, list, i + 1, start, end, Append(filtered, list[i]))
         ELSE DateLoopWithin(heap, list, i + 1, start, end, filtered)

\* The loop of filter_by_date_range from position i of the list on.
RECURSIVE DateLoop(_, _, _, _, _, _)
DateLoop(heap, list, i, start, end, filtered) ==
    IF i > Len(list) THEN filtered
    ELSE IF heap[list[i]].start <= end /\ heap[list[i]].end >= start
         THEN DateLoop(heap, list, i + 1, start, end, Append(filtered, list[i]))
         ELSE DateLoop(heap, list, i + 1, start, end, filtered)

\* filter_by_date_range(list, start, end): a new list; no object is assigned to.
filter_by_date_range(heap, list, start, end) ==
    DateLoop(heap, list, 1, start, end, <<>>)

----------------------------------------------------------------------------
(* datetime objects and dateutil's parser                                  *)

\* A datetime object; tzinfo is "None" for a naive one, "local" for tzlocal()
\* and "UTC" for an offset of zero read from the string.
datetime(year, month, day, hour, minute, second, microsecond, tzinfo) ==
    [year |-> year, month |-> month, day |-> day, hour |-> hour,
     minute |-> minute, second |-> second, microsecond |-> microsecond,
     tzinfo |-> tzinfo]

\* The fields two datetime objects of one timezone are compared by.
Fields(dt) ==
    <<dt.year, dt.month, dt.day, dt.hour, dt.minute, dt.second, dt.microsecond>>

\* a <= b for datetime objects
NotAfter(a, b) ==
    \/ Fields(a) = Fields(b)
    \/ \E i \in 1..7 : /\ Fields(a)[i] < Fields(b)[i]
                       /\ \A j \in 1..(i - 1) : Fields(a)[j] = Fields(b)[j]

\* `c in s` for a character c
Contains(s, c) == \E i \in 1..Len(s) : s[i] = c

\* \d of the re module
IsDigit(c) == c \in {"0", "1", "2", "3", "4", "5", "6", "7", "8", "9"}

DigitValue(c) ==
    CASE c = "0" -> 0 [] c = "1" -> 1 [] c = "2" -> 2 [] c = "3" -> 3
      [] c = "4" -> 4 [] c = "5" -> 5 [] c = "6" -> 6 [] c = "7" -> 7
      [] c = "8" -> 8 [] c = "9" -> 9

\* int(s) for a string of digits
RECURSIVE Number(_)
Number(s) ==
    IF s = <<>> THEN 0
    ELSE 10 * Number(SubSeq(s, 1, Len(s) - 1)) + DigitValue(s[Len(s)])

AllDigits(s) == \A i \in 1..Len(s) : IsDigit(s[i])

\* \d{4}-\d{2}-\d{2}
IsDatePattern(s) ==
    /\ Len(s) = 10
    /\ AllDigits(SubSeq(s, 1, 4)) /\ s[5] = "-"
    /\ AllDigits(SubSeq(s, 6, 7)) /\ s[8] = "-"
    /\ AllDigits(SubSeq(s, 9, 10))

\* \d{2}:\d{2}
IsHourMinutePattern(s) ==
    /\ Len(s) = 5
    /\ AllDigits(SubSeq(s, 1, 2)) /\ s[3] = ":"
    /\ AllDigits(SubSeq(s, 4, 5))

\* The days of a month, as the datetime constructor checks them.
DaysInMonth(year, month) ==
    IF month \in {4, 6, 9, 11} THEN 30
    ELSE IF month # 2 THEN 31
    ELSE IF year % 4 = 0 /\ (year % 100 # 0 \/ year % 400 = 0) THEN 29
    ELSE 28

\* 10 to the power n
RECURSIVE PowerOfTen(_)
PowerOfTen(n) == IF n = 0 THEN 1 ELSE 10 * PowerOfTen(n - 1)

\* The time of day dateutil reads from HH:MM, HH:MM:SS or HH:MM:SS.f (f of one
\* to six digits), when its fields are in range.
DateutilTime(s) ==
    LET hm == SubSeq(s, 1, 5)
        withSeconds == Len(s) >= 8 /\ s[6] = ":" /\ AllDigits(SubSeq(s, 7, 8))
        fraction == SubSeq(s, 10, Len(s))
        withFraction == /\ withSeconds /\ Len(s) \in 10..15 /\ s[9] = "."
                        /\ AllDigits(fraction)
        shaped == /\ Len(s) >= 5 /\ IsHourMinutePattern(hm)
                  /\ \/ Len(s) = 5
                     \/ withSeconds /\ Len(s) = 8
                     \/ withFraction
        hour == Number(SubSeq(s, 1, 2))
        minute == Number(SubSeq(s, 4, 5))
        second == IF withSeconds THEN Number(SubSeq(s, 7, 8)) ELSE 0
        microsecond == IF withFraction
                       THEN Number(fraction) * PowerOfTen(6 - Len(fraction))
                       ELSE 0
    IN  IF shaped /\ hour <= 23 /\ minute <= 59 /\ second <= 59
        THEN [ok |-> TRUE, hour |-> hour, minute |-> minute, second |-> second,
              microsecond |-> microsecond]
        ELSE [ok |-> FALSE, hour |-> 0, minute |-> 0, second |-> 0,
              microsecond |-> 0]

\* The string ends in the UTC mark.
DateutilZulu(s) == Len(s) > 0 /\ s[Len(s)] = "Z"

\* The string without the UTC mark.
DateutilBody(s) == IF DateutilZulu(s) THEN SubSeq(s, 1, Len(s) - 1) ELSE s

\* The part of the string that is to be a time of day: what stands behind a
\* date and the character that follows it, or the whole of a string that
\* begins with no date.
DateutilTimePart(body) ==
    IF Len(body) >= 10 /\ IsDatePattern(SubSeq(body, 1, 10))
    THEN SubSeq(body, 12, Len(body))
    ELSE body

\* What the parser makes of a string, given the time of day it read from the
\* time part.
DateutilResult(body, zulu, time, today) ==
    LET tzinfo == IF zulu THEN "UTC" ELSE "None"
        hasDate == Len(body) >= 10 /\ IsDatePattern(SubSeq(body, 1, 10))
        year == Number(SubSeq(body, 1, 4))
        month == Number(SubSeq(body, 6, 7))
        day == Number(SubSeq(body, 9, 10))
        validDate == /\ year >= 1 /\ month \in 1..12
                     /\ day \in 1..DaysInMonth(year, month)
        hasTime == Len(body) >= 12 /\ body[11] \in {"T", " "}
        failed == [ok |-> FALSE, dt |-> datetime(0, 0, 0, 0, 0, 0, 0, "None")]
    IN  IF hasDate /\ Len(body) = 10
        THEN IF validDate /\ ~zulu
             THEN [ok |-> TRUE, dt |-> datetime(year, month, day, 0, 0, 0, 0, "None")]
             ELSE failed
        ELSE IF hasDate
        THEN IF validDate /\ hasTime /\ time.ok
             THEN [ok |-> TRUE,
                   dt |-> datetime(year, month, day, time.hour, time.minute,
                                   time.second, time.microsecond, tzinfo)]
             ELSE failed
        ELSE IF time.ok
        THEN [ok |-> TRUE,
              dt |-> datetime(today.year, today.month, today.day, time.hour,
                              time.minute, time.second, time.microsecond, tzinfo)]
        ELSE failed

\* dateutil.parser.parse(s) with the current date `today` as its default:
\* whether it returns, and the datetime it returns.  It reads YYYY-MM-DD, a
\* time of day, and the two joined by "T" or a space, with "Z" allowed behind
\* a time of day; the date it leaves out is today's, the time it leaves out is
\* midnight.  Every other string of the model, and every date or time with a
\* field out of range, makes it raise ParserError (a ValueError).
date_parser_parse(s, today) ==
    DateutilResult(DateutilBody(s), DateutilZulu(s),
                   DateutilTime(DateutilTimePart(DateutilBody(s))), today)

----------------------------------------------------------------------------
(* parse_date_range                                                        *)

Today == <<"t", "o", "d", "a", "y">>

\* The test for "today" without lower().
IsTodayExact(s) == s = Today

\* date_string.lower() == "today"
IsToday(s) == Lower(s) = Today

\* The range of "today": now at 00:00:00.000000, and that at 23:59:59.
TodayRange(current) ==
    LET today == [current EXCEPT !.hour = 0, !.minute = 0, !.second = 0,
                                 !.microsecond = 0]
    IN  <<today, [today EXCEPT !.hour = 23, !.minute = 59, !.second = 59]>>

\* The group of the pattern, (\d{4}-\d{2}-\d{2}(?:T\d{2}:\d{2})?), tried at
\* position i: the lengths it can match there.
GroupLengths(s, i) ==
    {n \in {10, 16} :
        /\ i + n - 1 <= Len(s)
        /\ IsDatePattern(SubSeq(s, i, i + 9))
        /\ n = 16 => /\ s[i + 10] = "T"
                     /\ IsHourMinutePattern(SubSeq(s, i + 11, i + 15))}

\* The ways the whole pattern ^(group):(group)$ matches s: the lengths of the
\* two groups.
PatternMatches(s) ==
    {m \in {10, 16} \X {10, 16} :
        /\ m[1] \in GroupLengths(s, 1)
        /\ m[1] + 1 + m[2] = Len(s)
        /\ s[m[1] + 1] = ":"
        /\ m[2] \in GroupLengths(s, m[1] + 2)}

\* _split_date_range that splits at the first colon, whatever stands around it.
SplitAtFirstColon(s) ==
    IF Contains(s, ":")
    THEN LET k == CHOOSE i \in 1..Len(s) :
                      s[i] = ":" /\ \A j \in 1..(i - 1) : s[j] # ":"
         IN  <<SubSeq(s, 1, k - 1), SubSeq(s, k + 1, Len(s))>>
    ELSE <<s>>

\* _split_date_range(date_string): the two groups of the match, or the string
\* itself as the only item.
_split_date_range(s) ==
    IF PatternMatches(s) # {}
    THEN LET m == CHOOSE m \in PatternMatches(s) :
                      \A o \in PatternMatches(s) : o[1] <= m[1]
         IN  <<SubSeq(s, 1, m[1]), SubSeq(s, m[1] + 2, Len(s))>>
    ELSE <<s>>

\* The message of the ValueError that _parse_single_date raises: the text
\* before the string, the string, and the text behind it.
InvalidDateFormat(s) ==
    <<"Invalid date format: ">> \o s \o <<". Use YYYY-MM-DD or YYYY-MM-DDTHH:MM">>

\* dt.replace(tzinfo=local_tz) for a naive dt
Aware(dt) == IF dt.tzinfo = "None" THEN [dt EXCEPT !.tzinfo = "local"] ELSE dt

\* The time set for a string without "T" and without a space: 00:00:00 for a
\* start, 23:59:59 for an end.
WithDefaultTime(dt, s, is_start) ==
    IF ~Contains(s, "T") /\ ~Contains(s, " ")
    THEN IF is_start
         THEN [dt EXCEPT !.hour = 0, !.minute = 0, !.second = 0, !.microsecond = 0]
         ELSE [dt EXCEPT !.hour = 23, !.minute = 59, !.second = 59,
                         !.microsecond = 0]
    ELSE dt

\* The body of _parse_single_date that takes today's date where the parser
\* fails.
SingleDateOrDefault(parsed, s, is_start, today) ==
    [raised |-> "none", message |-> <<>>,
     returned |->
        << WithDefaultTime(
               Aware(IF parsed.ok THEN parsed.dt
                     ELSE datetime(today.year, today.month, today.day,
                                   0, 0, 0, 0, "None")),
               s, is_start) >>]

\* _parse_single_date that returns the default date where the parser fails.
ParseSingleDateOrDefault(s, is_start, today) ==
    SingleDateOrDefault(date_parser_parse(s, today), s, is_start, today)

\* The body of _parse_single_date, `parsed` being what the parser made of the
\* string.
SingleDate(parsed, s, is_start) ==
    IF ~parsed.ok
    THEN [raised |-> "ValueError", message |-> InvalidDateFormat(s),
          returned |-> <<>>]
    ELSE [raised |-> "none", message |-> <<>>,
          returned |-> <<WithDefaultTime(Aware(parsed.dt), s, is_start)>>]

\* _parse_single_date(date_string, is_start), the parser's default date being
\* today's: what it raises, and the datetime it returns.
_parse_single_date(s, is_start, today) ==
    SingleDate(date_parser_parse(s, today), s, is_start)

\* The end of a single date with the seconds left as parsed.
SingleDateEndKeepsSecond(start) == [start EXCEPT !.hour = 23, !.minute = 59]

\* The end of a single date as the instant parsed.
SingleDateEndAsParsed(start) == start

\* SingleDateEnd at the last microsecond of the day.
SingleDateEndLastMicrosecond(start) ==
    [start EXCEPT !.hour = 23, !.minute = 59, !.second = 59,
                  !.microsecond = 999999]

\* The end of a single date with the microsecond cleared.
SingleDateEndWholeSecond(start) ==
    [start EXCEPT !.hour = 23, !.minute = 59, !.second = 59, !.microsecond = 0]

\* start.replace(hour=23, minute=59, second=59)
SingleDateEnd(start) == [start EXCEPT !.hour = 23, !.minute = 59, !.second = 59]

\* How parse_date_range ends when a call of _parse_single_date raised.
Propagated(call, log) ==
    [raised |-> call.raised, message |-> call.message, returned |-> <<>>,
     calls |-> log]

\* The range branch of parse_date_range, start and end being what the two
\* calls of _parse_single_date do; the second is made when the first returned.
RangeBranch(start, end, parts) ==
    IF start.raised # "none" THEN Propagated(start, <<parts[1]>>)
    ELSE IF end.raised # "none" THEN Propagated(end, parts)
    ELSE [raised |-> "none", message |-> <<>>,
          returned |-> start.returned \o end.returned, calls |-> parts]

\* The single-date branch of parse_date_range.
SingleBranch(start, s) ==
    IF start.raised # "none" THEN Propagated(start, <<s>>)
    ELSE [raised |-> "none", message |-> <<>>,
          returned |-> <<start.returned[1], SingleDateEnd(start.returned[1])>>,
          calls |-> <<s>>]

\* parse_date_range for the stripped string s and what _split_date_range
\* made of it.
Branches(s, parts, current) ==
    IF IsToday(s)
    THEN [raised |-> "none", message |-> <<>>,
          returned |-> TodayRange(current), calls |-> <<>>]
    ELSE IF Contains(s, ":") /\ Len(parts) = 2
    THEN RangeBranch(_parse_single_date(parts[1], TRUE, current),
                     _parse_single_date(parts[2], FALSE, current),
                     parts)
    ELSE SingleBranch(_parse_single_date(s, TRUE, current), s)

\* parse_date_range(date_string) at the local time `current`: what it raises,
\* the message, the pair it returns and the strings it handed to
\* _parse_single_date.
parse_date_range(string, current) ==
    Branches(Strip(string), _split_date_range(Strip(string)), current)

----------------------------------------------------------------------------
(* CalendarEvent.duration_hours and duration_formatted, in float arithmetic *)

\* The bits of the significand of a float (a double).
Precision == 53

\* A positive float: the bits of its significand, the first one a 1, and the
\* exponent of that first bit; its value is the sum of bits[i] * 2^(exp-i+1).
\* Zero has no bits.
Float(bits, exp) == [bits |-> bits, exp |-> exp]

\* The binary digits of a natural number, the highest first; none for 0.
RECURSIVE BitsOf(_)
BitsOf(n) == IF n = 0 THEN <<>> ELSE Append(BitsOf(n \div 2), n % 2)

\* The natural number with these binary digits.
RECURSIVE ValueOf(_)
ValueOf(bits) ==
    IF bits = <<>> THEN 0
    ELSE 2 * ValueOf(SubSeq(bits, 1, Len(bits) - 1)) + bits[Len(bits)]

\* bits plus one in the last place; a carry out of the first place makes the
\* sequence one longer.
PlusOne(bits) ==
    IF \A i \in 1..Len(bits) : bits[i] = 1
    THEN <<1>> \o [i \in 1..Len(bits) |-> 0]
    ELSE [i \in 1..Len(bits) |->
            IF \E j \in (i + 1)..Len(bits) : bits[j] = 0 THEN bits[i]
            ELSE 1 - bits[i]]

\* Some bit from position i on is set.
AnySet(bits, i) == \E j \in i..Len(bits) : bits[j] = 1

\* Rounding to nearest, ties to even: the float nearest to the positive value
\* with these bits (the first a 1) and that exponent, `sticky` saying that the
\* value has more set bits than are written.
Rounded(bits, exp, sticky) ==
    IF Len(bits) <= Precision
    THEN Float(bits \o [i \in 1..(Precision - Len(bits)) |-> 0], exp)
    ELSE IF bits[Precision + 1] = 1
            /\ (sticky \/ AnySet(bits, Precision + 2) \/ bits[Precision] = 1)
    THEN IF Len(PlusOne(SubSeq(bits, 1, Precision))) > Precision
         THEN Float(SubSeq(PlusOne(SubSeq(bits, 1, Precision)), 1, Precision),
                    exp + 1)
         ELSE Float(PlusOne(SubSeq(bits, 1, Precision)), exp)
    ELSE Float(SubSeq(bits, 1, Precision), exp)

\* 2^i modulo d
RECURSIVE PowerOfTwoMod(_, _)
PowerOfTwoMod(i, d) ==
    IF i = 0 THEN 1 % d
    ELSE IF i % 2 = 0
    THEN (PowerOfTwoMod(i \div 2, d) * PowerOfTwoMod(i \div 2, d)) % d
    ELSE (2 * PowerOfTwoMod(i - 1, d)) % d

\* The remainder of the long division of rem / d after i bits below the
\* binary point, for rem < d, and the i-th of these bits.
RemainderAt(rem, d, i) == (rem * PowerOfTwoMod(i, d)) % d
QuotientBit(rem, d, i) == IF 2 * RemainderAt(rem, d, i - 1) >= d THEN 1 ELSE 0

\* The place below the binary point of the first set bit of rem / d, for
\* 0 < rem < d.
FirstSetBit(rem, d) ==
    CHOOSE i \in 1..Len(BitsOf(d)) :
        /\ QuotientBit(rem, d, i) = 1
        /\ \A j \in 1..(i - 1) : QuotientBit(rem, d, j) = 0

\* n / d for a natural number n and a positive one d: the float nearest to
\* the quotient, from Precision + 1 bits of the long division and what it
\* leaves.
TrueDivide(n, d) ==
    IF n = 0 THEN Float(<<>>, 0)
    ELSE IF n \div d = 0
    THEN Rounded([i \in 1..(Precision + 1) |->
                     QuotientBit(n, d, FirstSetBit(n, d) + i - 1)],
                 0 - FirstSetBit(n, d),
                 RemainderAt(n, d, FirstSetBit(n, d) + Precision) # 0)
    ELSE Rounded(BitsOf(n \div d)
                     \o [i \in 1..(Precision + 1 - Len(BitsOf(n \div d))) |->
                            QuotientBit(n % d, d, i)],
                 Len(BitsOf(n \div d)) - 1,
                 RemainderAt(n % d, d,
                             Precision + 1 - Len(BitsOf(n \div d))) # 0)

\* The carry into place i of the sum of two bit sequences of one length.
Carry(a, b, i) ==
    \E j \in (i + 1)..Len(a) :
        /\ a[j] + b[j] = 2
        /\ \A k \in (i + 1)..(j - 1) : a[k] + b[k] = 1

\* The sum of two bit sequences of one length.
Sum(a, b) ==
    (IF Carry(a, b, 0) THEN <<1>> ELSE <<>>)
        \o [i \in 1..Len(a) |->
               (a[i] + b[i] + (IF Carry(a, b, i) THEN 1 ELSE 0)) % 2]

\* bits with zeros in front, to the length n.
Widened(bits, n) == [i \in 1..(n - Len(bits)) |-> 0] \o bits

\* The binary digits of bits * k, for a positive number k.
RECURSIVE TimesBits(_, _)
TimesBits(bits, k) ==
    IF k = 1 THEN bits
    ELSE IF k % 2 = 0 THEN Append(TimesBits(bits, k \div 2), 0)
    ELSE Sum(Append(TimesBits(bits, k \div 2), 0),
             Widened(bits, Len(TimesBits(bits, k \div 2)) + 1))

\* x * k for a float x and a natural number k: the float nearest to the
\* product.
Times(x, k) ==
    IF x.bits = <<>> \/ k = 0 THEN Float(<<>>, 0)
    ELSE Rounded(TimesBits(x.bits, k),
                 x.exp + Len(TimesBits(x.bits, k)) - Len(x.bits), FALSE)

\* int(x) for a float x that is not negative: what is left of the binary
\* point.
Truncated(x) ==
    IF x.bits = <<>> \/ x.exp < 0 THEN 0
    ELSE ValueOf(SubSeq(x.bits, 1, x.exp + 1))

\* The days from 2024-01-01 to the first day of the year.
RECURSIVE DaysBeforeYear(_)
DaysBeforeYear(year) ==
    IF year <= 2024 THEN 0
    ELSE DaysBeforeYear(year - 1) + DaysInMonth(year - 1, 2) + 337

\* The days from the first day of the year to the first day of the month.
RECURSIVE DaysBeforeMonth(_, _)
DaysBeforeMonth(year, month) ==
    IF month = 1 THEN 0
    ELSE DaysBeforeMonth(year, month - 1) + DaysInMonth(year, month - 1)

\* The whole seconds from 2024-01-01 00:00:00 to dt.
SecondsOf(dt) ==
    (DaysBeforeYear(dt.year) + DaysBeforeMonth(dt.year, dt.month) + dt.day - 1)
        * 86400 + dt.hour * 3600 + dt.minute * 60 + dt.second

\* (end - start).total_seconds(), for an event of whole seconds that does not
\* end before it starts: a whole number, which a float holds exactly.
total_seconds(event) == SecondsOf(event.end) - SecondsOf(event.start)

\* duration_hours: delta.total_seconds() / 3600
duration_hours(event) == TrueDivide(total_seconds(event), 3600)

\* total_minutes = int(self.duration_hours * 60)
TotalMinutes(event) == Truncated(Times(duration_hours(event), 60))

\* str(n) for a natural number n
RECURSIVE Str(_)
Str(n) ==
    IF n < 10 THEN <<SubSeq(<<"0", "1", "2", "3", "4", "5", "6", "7", "8", "9">>,
                             n + 1, n + 1)[1]>>
    ELSE Str(n \div 10) \o Str(n % 10)

\* f"{n:02d}" for a natural number n
TwoDigits(n) == IF n < 10 THEN <<"0">> \o Str(n) ELSE Str(n)

\* duration_formatted: f"{hours}:{minutes:02d}"
duration_formatted(event) ==
    Str(TotalMinutes(event) \div 60) \o <<":">>
        \o TwoDigits(TotalMinutes(event) % 60)

----------------------------------------------------------------------------
(* filter_by_date_range on datetime objects                                *)

\* The loop of filter_by_date_range from position i of the list on, for
\* events and bounds that are datetime objects of one timezone.
RECURSIVE DatetimeLoop(_, _, _, _, _, _)
DatetimeLoop(heap, list, i, start, end, filtered) ==
    IF i > Len(list) THEN filtered
    ELSE IF NotAfter(heap[list[i]].start, end) /\ NotAfter(start, heap[list[i]].end)
         THEN DatetimeLoop(heap, list, i + 1, start, end, Append(filtered, list[i]))
         ELSE DatetimeLoop(heap, list, i + 1, start, end, filtered)

\* filter_by_date_range(list, start, end) for datetime objects.
filter_by_datetime_range(heap, list, start, end) ==
    DatetimeLoop(heap, list, 1, start, end, <<>>)

----------------------------------------------------------------------------
(* The fetchers: LocalICalFetcher, ICalFetcher and GoogleAPIFetcher        *)

\* A date object: the value of a DTSTART or DTEND with VALUE=DATE.
date(year, month, day) == [year |-> year, month |-> month, day |-> day]

\* isinstance(dt, datetime)
IsDatetime(dt) == "hour" \in DOMAIN dt

\* The offset of the local timezone from UTC, in hours.
LocalUtcOffset == 1

\* The datetime one hour after dt, on the calendar.
NextHour(dt) ==
    IF dt.hour < 23 THEN [dt EXCEPT !.hour = dt.hour + 1]
    ELSE IF dt.day < DaysInMonth(dt.year, dt.month)
    THEN [dt EXCEPT !.hour = 0, !.day = dt.day + 1]
    ELSE IF dt.month < 12
    THEN [dt EXCEPT !.hour = 0, !.day = 1, !.month = dt.month + 1]
    ELSE [dt EXCEPT !.hour = 0, !.day = 1, !.month = 1, !.year = dt.year + 1]

RECURSIVE HoursLater(_, _)
HoursLater(dt, n) == IF n = 0 THEN dt ELSE HoursLater(NextHour(dt), n - 1)

\* dt.astimezone(local_tz) for an aware dt
astimezone(dt) ==
    IF dt.tzinfo = "local" THEN dt
    ELSE [HoursLater(dt, LocalUtcOffset) EXCEPT !.tzinfo = "local"]

\* _normalize_datetime(dt, local_tz): a date becomes the datetime of its
\* midnight, a naive datetime gets the local timezone and an aware one is
\* converted to it.
_normalize_datetime(dt) ==
    IF ~IsDatetime(dt)
    THEN datetime(dt.year, dt.month, dt.day, 0, 0, 0, 0, "local")
    ELSE IF dt.tzinfo = "None" THEN [dt EXCEPT !.tzinfo = "local"]
    ELSE astimezone(dt)

\* The default of component.get("summary", "No Title")
NoTitle == <<"N", "o", " ", "T", "i", "t", "l", "e">>

\* The value of an optional property: None when it is missing.
OrNone(property) == IF property = <<>> THEN NoneVal ELSE property[1]

\* EventOf that leaves the hashtags at the default of the dataclass.
EventOfWithoutHashtags(component, start_dt, end_dt) ==
    [summary |-> IF component.summary = <<>> THEN NoTitle
                 ELSE component.summary[1],
     start |-> start_dt, end |-> end_dt,
     description |-> OrNone(component.description),
     location |-> NoneVal,
     uid |-> OrNone(component.uid),
     hashtags |-> <<>>]

\* The CalendarEvent _parse_event builds from a component and its start and
\* end: the hashtags are those of the description.
EventOf(component, start_dt, end_dt) ==
    [summary |-> IF component.summary = <<>> THEN NoTitle
                 ELSE component.summary[1],
     start |-> start_dt, end |-> end_dt,
     description |-> OrNone(component.description),
     location |-> NoneVal,
     uid |-> OrNone(component.uid),
     hashtags |-> extract_hashtags(OrNone(component.description))]

\* _parse_event with an end one hour after the start on the calendar, for a
\* component without DTEND.
ParseEventRollingOver(component) ==
    IF component.dtstart = <<>> THEN <<>>
    ELSE IF component.dtend # <<>>
    THEN << EventOf(component, _normalize_datetime(component.dtstart[1]),
                    _normalize_datetime(component.dtend[1])) >>
    ELSE << EventOf(component, _normalize_datetime(component.dtstart[1]),
                    NextHour(_normalize_datetime(component.dtstart[1]))) >>

\* _parse_event(component, local_tz) of LocalICalFetcher and ICalFetcher: <<>>
\* for None, else the event.  Without DTEND the end is the start with its hour
\* field replaced by hour + 1; replace raises ValueError for hour 24, and
\* `except Exception` turns that into None.
_parse_event(component) ==
    IF component.dtstart = <<>> THEN <<>>
    ELSE IF component.dtend # <<>>
    THEN << EventOf(component, _normalize_datetime(component.dtstart[1]),
                    _normalize_datetime(component.dtend[1])) >>
    ELSE IF _normalize_datetime(component.dtstart[1]).hour + 1 > 23 THEN <<>>
    ELSE << EventOf(component, _normalize_datetime(component.dtstart[1]),
                    [_normalize_datetime(component.dtstart[1])
                        EXCEPT !.hour = @ + 1]) >>

\* The loop of fetch over cal.walk(), from component i on: a VEVENT that
\* parses and overlaps the range is appended.
RECURSIVE FetchLoop(_, _, _, _, _)
FetchLoop(components, i, start, end, found) ==
    IF i > Len(components) THEN found
    ELSE IF components[i].name # "VEVENT"
    THEN FetchLoop(components, i + 1, start, end, found)
    ELSE LET event == _parse_event(components[i]) IN
         IF event = <<>>
         THEN FetchLoop(components, i + 1, start, end, found)
         ELSE IF NotAfter(event[1].start, end) /\ NotAfter(start, event[1].end)
         THEN FetchLoop(components, i + 1, start, end, Append(found, event[1]))
         ELSE FetchLoop(components, i + 1, start, end, found)

\* The list with e put behind the last element that does not start after it.
RECURSIVE InsertByStart(_, _)
InsertByStart(sorted, e) ==
    IF sorted = <<>> THEN <<e>>
    ELSE IF NotAfter(Head(sorted).start, e.start)
    THEN <<Head(sorted)>> \o InsertByStart(Tail(sorted), e)
    ELSE <<e>> \o sorted

\* events.sort(key=lambda e: e.start): a stable sort.
RECURSIVE SortByStart(_, _, _)
SortByStart(list, i, sorted) ==
    IF i > Len(list) THEN sorted
    ELSE SortByStart(list, i + 1, InsertByStart(sorted, list[i]))

\* The list fetch returns, as a heap of the new objects in the order of the
\* list and the list of references to them.
Fetched(list) == [heap |-> list, returned |-> [i \in 1..Len(list) |-> i]]

\* fetch that returns the events in the order of the calendar.
fetch_unsorted(components, start, end) ==
    Fetched(FetchLoop(components, 1, start, end, <<>>))

\* fetch(start, end) of LocalICalFetcher and ICalFetcher on a calendar with
\* these components.
fetch(components, start, end) ==
    Fetched(SortByStart(FetchLoop(components, 1, start, end, <<>>), 1, <<>>))

\* _parse_datetime of GoogleAPIFetcher on what dateutil read from the string:
\* a date gives the midnight, a naive value gets the local timezone and an
\* aware one stays in its own.
GoogleAPIFetcher_parse_datetime(dt) ==
    IF ~IsDatetime(dt)
    THEN datetime(dt.year, dt.month, dt.day, 0, 0, 0, 0, "local")
    ELSE IF dt.tzinfo = "None" THEN [dt EXCEPT !.tzinfo = "local"]
    ELSE dt

\* _parse_event(item) of GoogleAPIFetcher, an item holding its properties as a
\* component does.
GoogleAPIFetcher_parse_event(item) ==
    IF item.dtstart = <<>> THEN <<>>
    ELSE IF item.dtend # <<>>
    THEN << EventOf(item, GoogleAPIFetcher_parse_datetime(item.dtstart[1]),
                    GoogleAPIFetcher_parse_datetime(item.dtend[1])) >>
    ELSE IF GoogleAPIFetcher_parse_datetime(item.dtstart[1]).hour + 1 > 23
    THEN <<>>
    ELSE << EventOf(item, GoogleAPIFetcher_parse_datetime(item.dtstart[1]),
                    [GoogleAPIFetcher_parse_datetime(item.dtstart[1])
                        EXCEPT !.hour = @ + 1]) >>

\* The loop of GoogleAPIFetcher.fetch over the items the API returned.
RECURSIVE GoogleLoop(_, _, _)
GoogleLoop(items, i, found) ==
    IF i > Len(items) THEN found
    ELSE GoogleLoop(items, i + 1,
                    found \o GoogleAPIFetcher_parse_event(items[i]))

\* fetch(start, end) of GoogleAPIFetcher: the events of the items the API
\* returned for these bounds, in the order of the API.
GoogleAPIFetcher_fetch(items) == Fetched(GoogleLoop(items, 1, <<>>))

----------------------------------------------------------------------------
(* main, the command of cli.py                                             *)

\* bool(v) for an Optional[str]
Truthy(v) == v # NoneVal /\ v # <<>>

\* s.startswith(prefix)
StartsWith(s, prefix) ==
    Len(s) >= Len(prefix) /\ SubSeq(s, 1, Len(prefix)) = prefix

\* sub in s
HasSubstring(s, sub) ==
    \E i \in 1..(Len(s) - Len(sub) + 1) : SubSeq(s, i, i + Len(sub) - 1) = sub

\* The test of get_fetcher for an iCal URL.
IsICalUrl(calendar) ==
    /\ \/ StartsWith(calendar, <<"h", "t", "t", "p", ":", "/", "/">>)
       \/ StartsWith(calendar, <<"h", "t", "t", "p", "s", ":", "/", "/">>)
    /\ \/ HasSubstring(calendar, <<".", "i", "c", "s">>)
       \/ HasSubstring(Lower(calendar), <<"i", "c", "a", "l">>)

\* What fetcher.fetch(start_date, end_date) returns in main: LocalICalFetcher
\* for -l, else the fetcher get_fetcher makes for -c, on the entries the
\* source holds.
FetcherFetch(p, entries, range) ==
    IF Truthy(p.local) \/ IsICalUrl(p.calendar)
    THEN fetch(entries, range[1], range[2])
    ELSE GoogleAPIFetcher_fetch(entries)

\* The source check that only asks for some source.
SourceUsageErrorNeitherOnly(calendar, local) ==
    IF ~Truthy(calendar) /\ ~Truthy(local)
    THEN <<"You must specify either -c/--calendar or -l/--local">>
    ELSE <<>>

\* The message of the usage error main raises for its sources, or <<>>.
SourceUsageError(calendar, local) ==
    IF ~Truthy(calendar) /\ ~Truthy(local)
    THEN <<"You must specify either -c/--calendar or -l/--local">>
    ELSE IF Truthy(calendar) /\ Truthy(local)
    THEN <<"Cannot use both -c/--calendar and -l/--local. Choose one.">>
    ELSE <<>>

\* s.rfind(c), counted from 1: the last position of c in s, or 0.
RFind(s, c) ==
    IF Contains(s, c)
    THEN CHOOSE i \in 1..Len(s) : s[i] = c /\ \A j \in (i + 1)..Len(s) : s[j] # c
    ELSE 0

\* Path(write).suffix: what stands from the last dot of the final component
\* on, when that dot is neither its first nor its last character.
Suffix(path) ==
    LET name == SubSeq(path, RFind(path, "/") + 1, Len(path))
        i == RFind(name, ".")
    IN  IF 1 < i /\ i < Len(name) THEN SubSeq(name, i, Len(name)) ELSE <<>>

\* s.lstrip(".")
RECURSIVE LStripDots(_)
LStripDots(s) ==
    IF s # <<>> /\ s[1] = "." THEN LStripDots(SubSeq(s, 2, Len(s))) ELSE s

\* ["pdf", "xlsx", "ods", "csv", "json"]
Formats ==
    { <<"p", "d", "f">>, <<"x", "l", "s", "x">>, <<"o", "d", "s">>,
      <<"c", "s", "v">>, <<"j", "s", "o", "n">> }

\* The extension read without lower().
InferredFormatCaseSensitive(write) == LStripDots(Suffix(write))

\* ext = path.suffix.lower().lstrip(".")
InferredFormat(write) == LStripDots(Lower(Suffix(write)))

\* One step of the pipeline: what main calls and, for the fetcher, its source
\* and, for an export to a file, the format.
Step(name, format) == [step |-> name, with |-> format]

\* How main ends.
Ending(error, said, code, steps, heap, list, range, format, to_terminal) ==
    [raised |-> error, message |-> said, exit_code |-> code, trace |-> steps,
     heap |-> heap, events |-> list, date_range |-> range,
     export |-> format, terminal |-> to_terminal]

\* Failed that ends the run without an error.
FailedQuietly(said, steps, heap, list, range, format, to_terminal) ==
    Ending("none", said, 0, steps, heap, list, range, format, to_terminal)

\* How main ends when a call of the try block raised: a ClickException, exit
\* code 1.
Failed(said, steps, heap, list, range, format, to_terminal) ==
    Ending("ClickException", said, 1, steps, heap, list, range, format,
           to_terminal)

\* The output to the terminal, and the end of the try block.
Printing(w, steps, filtered, range, format, to_terminal) ==
    IF ~to_terminal
    THEN Ending("none", <<>>, 0, steps, filtered.heap, filtered.returned,
                range, format, to_terminal)
    ELSE IF w.fails = "terminal"
    THEN Failed(<<"terminal">>, Append(steps, Step("terminal", <<>>)),
                filtered.heap, filtered.returned, range, format, to_terminal)
    ELSE Ending("none", <<>>, 0, Append(steps, Step("terminal", <<>>)),
                filtered.heap, filtered.returned, range, format, to_terminal)

\* Exporting without the test for an empty list.
ExportingWhatever(p, w, steps, filtered, range, format, to_terminal) ==
    IF ~(Truthy(p.write) /\ Truthy(format) /\ Lower(format) \in Formats)
    THEN Printing(w, steps, filtered, range, format, to_terminal)
    ELSE IF w.fails = "export"
    THEN Failed(<<"export">>, Append(steps, Step("export", Lower(format))),
                filtered.heap, filtered.returned, range, format, to_terminal)
    ELSE Printing(w, Append(steps, Step("export", Lower(format))), filtered,
                  range, format, to_terminal)

\* From `if not events` on: sys.exit(0) for no events, else the export to a
\* file when there are a path and a format that get_exporter knows.
Exporting(p, w, steps, filtered, range, format, to_terminal) ==
    IF filtered.returned = <<>>
    THEN Ending("none", <<>>, 0, steps, filtered.heap, <<>>, range, format,
                to_terminal)
    ELSE IF ~(Truthy(p.write) /\ Truthy(format) /\ Lower(format) \in Formats)
    THEN Printing(w, steps, filtered, range, format, to_terminal)
    ELSE IF w.fails = "export"
    THEN Failed(<<"export">>, Append(steps, Step("export", Lower(format))),
                filtered.heap, filtered.returned, range, format, to_terminal)
    ELSE Printing(w, Append(steps, Step("export", Lower(format))), filtered,
                  range, format, to_terminal)

\* From the making of the fetcher to the hashtag filter; `fetched` is what
\* fetch returns when it does not fail.
Fetching(p, w, steps, fetched, range, format, to_terminal) ==
    IF w.fails = "fetcher"
    THEN Failed(<<"fetcher">>, steps, <<>>, <<>>, range, format, to_terminal)
    ELSE IF w.fails = "fetch"
    THEN Failed(<<"fetch">>, Append(steps, Step("fetch", range)), <<>>, <<>>,
                range, format, to_terminal)
    ELSE IF p.search # <<>>
    THEN Exporting(p, w,
                   steps \o <<Step("fetch", range), Step("filter_events", <<>>)>>,
                   filter_events(fetched.heap, fetched.returned, p.search),
                   range, format, to_terminal)
    ELSE Exporting(p, w, Append(steps, Step("fetch", range)), fetched,
                   range, format, to_terminal)

\* The try block after parse_date_range(date), `parsed` being what that call
\* did.
Parsing(p, w, parsed, format, to_terminal) ==
    IF parsed.raised # "none"
    THEN Failed(parsed.message, <<Step("parse_date_range", <<>>)>>, <<>>, <<>>,
                <<>>, format, to_terminal)
    ELSE Fetching(p, w,
                  << Step("parse_date_range", <<>>),
                     Step("fetcher", IF Truthy(p.local) THEN p.local
                                     ELSE p.calendar) >>,
                  FetcherFetch(p, w.entries, parsed.returned),
                  parsed.returned, format, to_terminal)

\* The try block of main, with `export` and `terminal` as the code before it
\* left them.  A collaborator fails where w.fails names it; the source holds
\* the entries w.entries.  Every exception ends the run as a ClickException with exit
\* code 1; sys.exit(0) ends it with exit code 0.
Pipeline(p, w, current, format, to_terminal) ==
    Parsing(p, w, parse_date_range(p.date, current), format, to_terminal)

\* main(calendar, local, search, date, write, export, terminal, credentials)
\* with the options p, in the world w, at the local time `current`.  A usage
\* error ends the run with exit code 2.
main(p, w, current) ==
    LET sources == SourceUsageError(p.calendar, p.local)
        infer == Truthy(p.write) /\ ~Truthy(p.export)
        ext == InferredFormat(p.write)
        usage(said) ==
            Ending("UsageError", said, 2, <<>>, <<>>, <<>>, <<>>,
                   p.export, p.terminal)
    IN  IF sources # <<>> THEN usage(sources)
        ELSE IF infer /\ ext \notin Formats
        THEN usage(<<"When using -w/--write, you must specify -e/--export format or use a recognized file extension (.pdf, .xlsx, .ods, .csv, .json)">>)
        ELSE Pipeline(p, w, current,
                      IF infer THEN ext ELSE p.export,
                      IF ~Truthy(p.write) THEN TRUE ELSE p.terminal)

----------------------------------------------------------------------------
(* The parts of the state a run does not use.                              *)

\* Nothing was called yet.
NoCall == called = "" /\ raised = "none"

\* parse_date_range is not called.
NoParser ==
    /\ date_string = <<>> /\ now = <<>> /\ date_range = <<>>
    /\ calls = <<>> /\ message = <<>>

\* The command line is not run.
NoCli ==
    /\ params = <<>> /\ world = <<>> /\ trace = <<>> /\ exit_code = 0
    /\ export = NoneVal /\ terminal = FALSE

----------------------------------------------------------------------------
(* Calls of extract_hashtags on every text.                                *)

InitExtract ==
    /\ pc = "start"
    /\ text \in StringsUpTo(Chars, MaxTextLen) \cup {NoneVal}
    /\ tags = <<>>
    /\ hashtag_terms = <<>> /\ groups = <<>>
    /\ events = <<>> /\ input = <<>> /\ arg = <<>> /\ before = <<>>
    /\ result = <<>> /\ first = <<>>
    /\ range_start = 0 /\ range_end = 0
    /\ NoCall /\ NoParser /\ NoCli

CallExtract ==
    /\ pc = "start"
    /\ tags' = extract_hashtags(text)
    /\ pc' = "done"
    /\ called' = "extract_hashtags"
    /\ UNCHANGED <<text, hashtag_terms, groups, events, input, arg, before,
                   result, first, range_start, range_end,
                   raised, parserVars, cliVars>>

NextExtract == CallExtract

SpecExtract == InitExtract /\ [][NextExtract]_vars

----------------------------------------------------------------------------
(* Calls of _parse_hashtag_groups on every list of search terms.           *)

\* The string s cut into Len(cuts) + 1 consecutive pieces behind the positions
\* cuts (non-decreasing).
CutAt(s, cuts) ==
    [k \in 1..(Len(cuts) + 1) |->
        SubSeq(s, (IF k = 1 THEN 0 ELSE cuts[k - 1]) + 1,
                  IF k > Len(cuts) THEN Len(s) ELSE cuts[k])]

\* Every list of at most maxTerms search terms that hold at most maxChars
\* characters together.
TermLists(maxChars, maxTerms) ==
    {<<>>} \cup
    {CutAt(s, cuts) :
        <<s, cuts>> \in
            {sc \in StringsUpTo(Chars, maxChars) \X SeqsUpTo(0..maxChars, maxTerms - 1) :
                /\ \A k \in 1..Len(sc[2]) : sc[2][k] <= Len(sc[1])
                /\ \A k \in 1..(Len(sc[2]) - 1) : sc[2][k] <= sc[2][k + 1]}}

InitGroups ==
    /\ pc = "start"
    /\ hashtag_terms \in TermLists(MaxTermChars, MaxTerms)
    /\ groups = <<>>
    /\ text = NoneVal /\ tags = <<>>
    /\ events = <<>> /\ input = <<>> /\ arg = <<>> /\ before = <<>>
    /\ result = <<>> /\ first = <<>>
    /\ range_start = 0 /\ range_end = 0
    /\ NoCall /\ NoParser /\ NoCli

CallParseGroups ==
    /\ pc = "start"
    /\ LET call == ParseGroupsCall(hashtag_terms) IN
          /\ groups' = call.returned
          /\ raised' = call.raised
    /\ pc' = "done"
    /\ called' = "_parse_hashtag_groups"
    /\ UNCHANGED <<text, tags, hashtag_terms, events, input, arg, before,
                   result, first, range_start, range_end,
                   parserVars, cliVars>>

NextGroups == CallParseGroups

SpecGroups == InitGroups /\ [][NextGroups]_vars

----------------------------------------------------------------------------
(* Calls of extract_hashtags and of _parse_hashtag_groups on every input,  *)
(* None included.                                                          *)

InitLeaves ==
    /\ pc = "start"
    /\ \/ /\ text \in StringsUpTo(Chars, MaxTextLen) \cup {NoneVal}
          /\ hashtag_terms = <<>>
       \/ /\ text = NoneVal
          /\ hashtag_terms \in TermLists(MaxTermChars, MaxTerms) \cup {NoneList}
    /\ tags = <<>> /\ groups = <<>>
    /\ events = <<>> /\ input = <<>> /\ arg = <<>> /\ before = <<>>
    /\ result = <<>> /\ first = <<>>
    /\ range_start = 0 /\ range_end = 0
    /\ NoCall /\ NoParser /\ NoCli

NextLeaves == CallExtract \/ CallParseGroups

SpecLeaves == InitLeaves /\ [][NextLeaves]_vars

----------------------------------------------------------------------------
(* Calls of filter_events: once on a list of events, then on its own result. *)

\* Descriptions of the events handed to filter_events: none, tags in mixed
\* case, one tag twice in two cases, a tag that extends another between other
\* characters, and words without a tag.
Descriptions ==
    { NoneVal,
      <<"#", "a", " ", "#", "B">>,
      <<"#", "B", "#", "b">>,
      <<"x", "#", "a", "b", ",">>,
      <<"#", "A">>,
      <<"a", " ", "b">> }

\* What the hashtags field holds before the call: the dataclass default, or a
\* value that is not what the description holds.
StaleHashtags == << <<"#", "x">> >>

EventInputs ==
    {[description |-> d, hashtags |-> <<>>] : d \in Descriptions}
        \cup {[description |-> <<"#", "B", "#", "b">>, hashtags |-> StaleHashtags],
              [description |-> <<"a", " ", "b">>, hashtags |-> StaleHashtags],
              [description |-> NoneVal, hashtags |-> StaleHashtags]}

\* Search terms of the -s option: a bare word, an AND group with white space
\* and mixed case, a padded tag, the empty term, a term with an empty piece
\* and a term with inner white space.
SearchTerms ==
    { <<"a">>,
      <<"#", "A", ",", " ", "b">>,
      <<" ", "#", "B", " ">>,
      <<>>,
      <<"#", "a", ",">>,
      <<"a", " ", "b">> }

InitFilter ==
    /\ pc = "start"
    /\ \E es \in SeqsUpTo(EventInputs, MaxEvents) :
          events = [i \in 1..Len(es) |->
                       CalendarEvent(i, i, i + 1, es[i].description, es[i].hashtags)]
    /\ input = [i \in 1..Len(events) |-> i]
    /\ hashtag_terms \in SeqsUpTo(SearchTerms, MaxTerms)
    /\ arg = <<>> /\ before = <<>> /\ result = <<>> /\ first = <<>>
    /\ text = NoneVal /\ tags = <<>> /\ groups = <<>>
    /\ range_start = 0 /\ range_end = 0
    /\ NoCall /\ NoParser /\ NoCli

\* result = filter_events(input, hashtag_terms)
CallFilterEvents ==
    /\ pc = "start"
    /\ LET call == filter_events(events, input, hashtag_terms) IN
          /\ events' = call.heap
          /\ result' = call.returned
    /\ arg' = input
    /\ before' = events
    /\ pc' = "filtered"
    /\ called' = "filter_events"
    /\ UNCHANGED <<text, tags, hashtag_terms, groups, input, first,
                   range_start, range_end,
                   raised, parserVars, cliVars>>

\* result = filter_events(result, hashtag_terms)
CallFilterEventsAgain ==
    /\ pc = "filtered"
    /\ LET call == filter_events(events, result, hashtag_terms) IN
          /\ events' = call.heap
          /\ result' = call.returned
    /\ first' = <<[heap |-> events, returned |-> result]>>
    /\ arg' = result
    /\ before' = events
    /\ pc' = "refiltered"
    /\ called' = "filter_events"
    /\ UNCHANGED <<text, tags, hashtag_terms, groups, input,
                   range_start, range_end,
                   raised, parserVars, cliVars>>

NextFilter == CallFilterEvents \/ CallFilterEventsAgain

SpecFilter == InitFilter /\ [][NextFilter]_vars

----------------------------------------------------------------------------
(* Calls of filter_by_date_range on every list of events and every range.  *)

Instants == 0..MaxTime

InitDate ==
    /\ pc = "start"
    /\ \E es \in SeqsUpTo(Instants \X Instants, MaxEvents) :
          events = [i \in 1..Len(es) |->
                       CalendarEvent(i, es[i][1], es[i][2], NoneVal, <<>>)]
    /\ input = [i \in 1..Len(events) |-> i]
    /\ range_start \in Instants
    /\ range_end \in Instants
    /\ arg = <<>> /\ before = <<>> /\ result = <<>> /\ first = <<>>
    /\ text = NoneVal /\ tags = <<>> /\ hashtag_terms = <<>> /\ groups = <<>>
    /\ NoCall /\ NoParser /\ NoCli

\* result = filter_by_date_range(input, range_start, range_end)
CallFilterByDateRange ==
    /\ pc = "start"
    /\ result' = filter_by_date_range(events, input, range_start, range_end)
    /\ arg' = input
    /\ before' = events
    /\ pc' = "done"
    /\ called' = "filter_by_date_range"
    /\ UNCHANGED <<text, tags, hashtag_terms, groups, events, input, first,
                   range_start, range_end,
                   raised, parserVars, cliVars>>

NextDate == CallFilterByDateRange

SpecDate == InitDate /\ [][NextDate]_vars

----------------------------------------------------------------------------
(* Calls of filter_events whose search terms are compared with their       *)
(* respelled variants.                                                     *)

InitVariant ==
    /\ pc = "start"
    /\ \E es \in SeqsUpTo({<<"#", "a", " ", "#", "B">>, <<"#", "A">>, <<"a", " ", "b">>},
                          MaxEvents) :
          events = [i \in 1..Len(es) |-> CalendarEvent(i, i, i + 1, es[i], <<>>)]
    /\ input = [i \in 1..Len(events) |-> i]
    /\ hashtag_terms \in SeqsUpTo(SearchTerms, MaxTerms)
    /\ arg = <<>> /\ before = <<>> /\ result = <<>> /\ first = <<>>
    /\ text = NoneVal /\ tags = <<>> /\ groups = <<>>
    /\ range_start = 0 /\ range_end = 0
    /\ NoCall /\ NoParser /\ NoCli

NextVariant == CallFilterEvents

SpecVariant == InitVariant /\ [][NextVariant]_vars

----------------------------------------------------------------------------
(* Calls of parse_date_range on the strings of the -d option.              *)

\* Dates: the first and the last day of a month, and a day it does not have.
FirstDay == <<"2", "0", "2", "6", "-", "0", "2", "-", "0", "1">>
LastDay == <<"2", "0", "2", "6", "-", "0", "2", "-", "2", "8">>
NoSuchDay == <<"2", "0", "2", "6", "-", "0", "2", "-", "3", "0">>

DateTokens == {FirstDay, LastDay, NoSuchDay}

\* Times of day: two hours with their minutes, an hour the day does not have,
\* and the last second of the day with a fraction.
Morning == <<"0", "9", ":", "0", "0">>
Evening == <<"1", "7", ":", "0", "0">>
NoSuchHour == <<"2", "5", ":", "0", "0">>
LastSecond == <<"2", "3", ":", "5", "9", ":", "5", "9", ".", "5">>

TimeTokens == {Morning, Evening, NoSuchHour, LastSecond}

\* A date and a time of day joined by sep.
DateTimes(sep, times) ==
    {d \o <<sep>> \o t : d \in {FirstDay, LastDay}, t \in times}

\* The tokens the two sides of a range are made of.
RangeTokens == DateTokens \cup DateTimes("T", {Morning, Evening, NoSuchHour})

\* The strings handed to parse_date_range, before white space is put around
\* them: "today" in three spellings, the empty string and a word, single
\* dates, datetimes with "T" and with a space, one with a UTC mark, times of
\* day alone, ranges of every two tokens, and strings that are a range but
\* for one character.
DateStrings ==
    { Today, <<"T", "O", "D", "A", "Y">>, <<"T", "o", "d", "a", "y">>,
      <<>>, <<"n", "o", "t", "-", "a", "-", "d", "a", "t", "e">> }
        \cup DateTokens
        \cup DateTimes("T", TimeTokens) \cup DateTimes(" ", TimeTokens)
        \cup {FirstDay \o <<"T">> \o Morning \o <<"Z">>}
        \cup TimeTokens
        \cup {a \o <<":">> \o b : a \in RangeTokens, b \in RangeTokens}
        \cup { <<"x">> \o FirstDay \o <<":">> \o LastDay,
               FirstDay \o <<":">> \o LastDay \o <<"x">>,
               FirstDay \o <<":", "x">> }

\* n spaces
Pad(n) == [i \in 1..n |-> " "]

\* The local date and time of the call: the first instant of a day, the last
\* microsecond of a day, and a time on the odd day of a leap year.
Nows ==
    { datetime(2026, 2, 1, 0, 0, 0, 0, "local"),
      datetime(2026, 2, 28, 23, 59, 59, 999999, "local"),
      datetime(2024, 2, 29, 12, 30, 15, 250000, "local") }

InitParser ==
    /\ pc = "start"
    /\ \E l \in 0..MaxPad, r \in 0..MaxPad, c \in DateStrings :
          date_string = Pad(l) \o c \o Pad(r)
    /\ now \in Nows
    /\ date_range = <<>> /\ calls = <<>> /\ message = <<>>
    /\ text = NoneVal /\ tags = <<>> /\ hashtag_terms = <<>> /\ groups = <<>>
    /\ events = <<>> /\ input = <<>> /\ arg = <<>> /\ before = <<>>
    /\ result = <<>> /\ first = <<>>
    /\ range_start = 0 /\ range_end = 0
    /\ NoCall /\ NoCli

\* date_range = parse_date_range(date_string)
CallParseDateRange ==
    /\ pc = "start"
    /\ LET call == parse_date_range(date_string, now) IN
          /\ date_range' = call.returned
          /\ raised' = call.raised
          /\ message' = call.message
          /\ calls' = call.calls
    /\ pc' = "done"
    /\ called' = "parse_date_range"
    /\ UNCHANGED <<text, tags, hashtag_terms, groups, events, input, arg,
                   before, result, first, range_start, range_end,
                   date_string, now, cliVars>>

NextParser == CallParseDateRange

SpecParser == InitParser /\ [][NextParser]_vars

----------------------------------------------------------------------------
(* A fetch from a calendar, with the range parse_date_range returned.      *)

\* The largest number of components of a calendar.
MaxComponents == 2

\* A component of a calendar; a property it does not have is <<>>.
Component(name, summary, dtstart, dtend, description, uid) ==
    [name |-> name, summary |-> summary, dtstart |-> dtstart, dtend |-> dtend,
     description |-> description, uid |-> uid]

\* A naive datetime of 2026.
Naive(month, day, hour, minute, second) ==
    datetime(2026, month, day, hour, minute, second, 0, "None")

\* An event of the morning of 2026-02-01, with a tag.
Meeting ==
    Component("VEVENT", << <<"M">> >>, <<Naive(2, 1, 9, 0, 0)>>,
              <<Naive(2, 1, 10, 30, 0)>>, << <<"#", "a">> >>, << <<"u">> >>)

\* One of the same start, without summary, with a tag in upper case.
Standup ==
    Component("VEVENT", <<>>, <<Naive(2, 1, 9, 0, 0)>>,
              <<Naive(2, 1, 9, 30, 0)>>, << <<"#", "B">> >>, <<>>)

\* Events without DTEND: one at 08:00, and one at 23:00.
Early ==
    Component("VEVENT", << <<"E">> >>, <<Naive(2, 1, 8, 0, 0)>>, <<>>, <<>>,
              <<>>)
Late ==
    Component("VEVENT", << <<"L">> >>, <<Naive(2, 1, 23, 0, 0)>>, <<>>,
              << <<"#", "a">> >>, <<>>)

\* A component without DTSTART, and one that is no event.
NoStart ==
    Component("VEVENT", << <<"N">> >>, <<>>, <<Naive(2, 1, 10, 0, 0)>>, <<>>,
              <<>>)
Todo ==
    Component("VTODO", << <<"T">> >>, <<Naive(2, 1, 9, 0, 0)>>,
              <<Naive(2, 1, 10, 0, 0)>>, << <<"#", "a">> >>, <<>>)

\* An event of the whole day, given by dates; and one given by the date of
\* its start only.
AllDay ==
    Component("VEVENT", << <<"D">> >>, <<date(2026, 2, 1)>>,
              <<date(2026, 2, 2)>>, << <<"x">> >>, <<>>)
DayOnly ==
    Component("VEVENT", << <<"O">> >>, <<date(2026, 2, 28)>>, <<>>, <<>>, <<>>)

\* Events at the edges of 2026-02-01: one starting in its last second, one
\* ending at its first instant, and one starting at the first instant of the
\* next day.
AtLastSecond ==
    Component("VEVENT", << <<"S">> >>, <<Naive(2, 1, 23, 59, 59)>>,
              <<Naive(2, 2, 0, 30, 0)>>, <<>>, <<>>)
UntilMidnight ==
    Component("VEVENT", << <<"U">> >>, <<Naive(1, 31, 22, 0, 0)>>,
              <<Naive(2, 1, 0, 0, 0)>>, <<>>, <<>>)
NextDay ==
    Component("VEVENT", << <<"X">> >>, <<Naive(2, 2, 0, 0, 0)>>,
              <<Naive(2, 2, 1, 0, 0)>>, <<>>, <<>>)

\* An event given in UTC, around the midnight of 2026-02-01 there.
InUtc ==
    Component("VEVENT", << <<"Z">> >>,
              <<datetime(2026, 1, 31, 23, 30, 0, 0, "UTC")>>,
              <<datetime(2026, 2, 1, 0, 30, 0, 0, "UTC")>>, <<>>, <<>>)

Components ==
    { Meeting, Standup, Early, Late, NoStart, Todo, AllDay, DayOnly,
      AtLastSecond, UntilMidnight, NextDay, InUtc }

\* The values of -d of a fetch: a day, a range, a range in the wrong order,
\* "today", and a date the month does not have.
FetchDates ==
    { FirstDay, LastDay, FirstDay \o <<":">> \o LastDay,
      LastDay \o <<":">> \o FirstDay, Today, NoSuchDay }

InitFetch ==
    /\ pc = "start"
    /\ date_string \in FetchDates
    /\ now \in Nows
    /\ world \in [fails : {"nothing"},
                  entries : SeqsUpTo(Components, MaxComponents)]
    /\ date_range = <<>> /\ calls = <<>> /\ message = <<>>
    /\ params = <<>> /\ trace = <<>> /\ exit_code = 0 /\ export = NoneVal
    /\ terminal = FALSE
    /\ text = NoneVal /\ tags = <<>> /\ hashtag_terms = <<>> /\ groups = <<>>
    /\ events = <<>> /\ input = <<>> /\ arg = <<>> /\ before = <<>>
    /\ result = <<>> /\ first = <<>>
    /\ range_start = 0 /\ range_end = 0
    /\ NoCall

\* result = fetcher.fetch(start, end), with the pair parse_date_range returned
CallFetch ==
    /\ pc = "done" /\ raised = "none"
    /\ LET call == fetch(world.entries, date_range[1], date_range[2]) IN
          /\ events' = call.heap
          /\ result' = call.returned
    /\ pc' = "fetched"
    /\ called' = "fetch"
    /\ UNCHANGED <<text, tags, hashtag_terms, groups, input, arg, before,
                   first, range_start, range_end, raised, parserVars, cliVars>>

\* result = fetcher.fetch(start, end) of a GoogleAPIFetcher, the API returning
\* the entries as its items
CallGoogleFetch ==
    /\ pc = "done" /\ raised = "none"
    /\ LET call == GoogleAPIFetcher_fetch(world.entries) IN
          /\ events' = call.heap
          /\ result' = call.returned
    /\ pc' = "fetched"
    /\ called' = "GoogleAPIFetcher.fetch"
    /\ UNCHANGED <<text, tags, hashtag_terms, groups, input, arg, before,
                   first, range_start, range_end, raised, parserVars, cliVars>>

NextFetch == CallParseDateRange \/ CallFetch \/ CallGoogleFetch

SpecFetch == InitFetch /\ [][NextFetch]_vars

----------------------------------------------------------------------------
(* filter_by_date_range with the range parse_date_range returned for a day. *)

\* A local datetime of 2026.
Local(month, day, hour, minute, second, microsecond) ==
    datetime(2026, month, day, hour, minute, second, microsecond, "local")

\* Instants around 2026-02-01 and 2026-02-28: the evening before, the first
\* instant, the morning, the last whole second, half a second later and the
\* first instant of the next day.
DayInstants ==
    { Local(1, 31, 22, 0, 0, 0), Local(2, 1, 0, 0, 0, 0),
      Local(2, 1, 9, 0, 0, 0), Local(2, 1, 23, 59, 59, 0),
      Local(2, 1, 23, 59, 59, 500000), Local(2, 2, 0, 0, 0, 0),
      Local(2, 28, 0, 0, 0, 0), Local(2, 28, 23, 59, 59, 500000) }

\* The events: every two instants of which the first is not after the second.
DayEvents ==
    {CalendarEvent(1, ab[1], ab[2], NoneVal, <<>>) :
        ab \in {cd \in DayInstants \X DayInstants : NotAfter(cd[1], cd[2])}}

InitDay ==
    /\ pc = "start"
    /\ date_string \in {FirstDay, LastDay}
    /\ now = datetime(2026, 2, 1, 0, 0, 0, 0, "local")
    /\ events \in SeqsUpTo(DayEvents, MaxEvents)
    /\ input = [i \in 1..Len(events) |-> i]
    /\ date_range = <<>> /\ calls = <<>> /\ message = <<>>
    /\ arg = <<>> /\ before = <<>> /\ result = <<>> /\ first = <<>>
    /\ text = NoneVal /\ tags = <<>> /\ hashtag_terms = <<>> /\ groups = <<>>
    /\ range_start = 0 /\ range_end = 0
    /\ NoCall /\ NoCli

\* result = filter_by_date_range(input, *date_range)
CallFilterByParsedRange ==
    /\ pc = "done" /\ raised = "none"
    /\ result' = filter_by_datetime_range(events, input, date_range[1],
                                          date_range[2])
    /\ arg' = input
    /\ before' = events
    /\ pc' = "ranged"
    /\ called' = "filter_by_date_range"
    /\ UNCHANGED <<text, tags, hashtag_terms, groups, events, input, first,
                   range_start, range_end, raised, parserVars, cliVars>>

NextOfDay == CallParseDateRange \/ CallFilterByParsedRange

SpecDay == InitDay /\ [][NextOfDay]_vars

----------------------------------------------------------------------------
(* Reading the duration of an event of whole minutes.                      *)

\* The longest duration, in minutes.
MaxMinutes == 130

\* The datetime m minutes after dt.
MinutesLater(dt, m) ==
    [HoursLater(dt, (dt.minute + m) \div 60) EXCEPT !.minute = (dt.minute + m) % 60]

\* The starts: the first instant of a day, and the late evening of the last
\* day of a month.
DurationStarts == {Local(2, 1, 0, 0, 0, 0), Local(2, 28, 22, 30, 0, 0)}

InitDuration ==
    /\ pc = "start"
    /\ \E s \in DurationStarts, m \in 0..MaxMinutes :
          events = <<CalendarEvent(1, s, MinutesLater(s, m), NoneVal, <<>>)>>
    /\ input = <<1>>
    /\ arg = <<>> /\ before = <<>> /\ result = <<>> /\ first = <<>>
    /\ text = NoneVal /\ tags = <<>> /\ hashtag_terms = <<>> /\ groups = <<>>
    /\ range_start = 0 /\ range_end = 0
    /\ NoCall /\ NoParser /\ NoCli

\* result = (event.duration_hours, event.duration_formatted)
ReadDuration ==
    /\ pc = "start"
    /\ result' = [duration_hours |-> duration_hours(events[input[1]]),
                  duration_formatted |-> duration_formatted(events[input[1]])]
    /\ pc' = "done"
    /\ called' = "duration_formatted"
    /\ UNCHANGED <<text, tags, hashtag_terms, groups, events, input, arg,
                   before, first, range_start, range_end, raised, parserVars,
                   cliVars>>

NextDuration == ReadDuration

SpecDuration == InitDuration /\ [][NextDuration]_vars

----------------------------------------------------------------------------
(* Runs of the command.                                                    *)

\* Values of -c: not given, empty, and a calendar id.
Calendars == {NoneVal, <<>>, <<"i", "d">>}

\* Values of -l: not given, and a file that exists.
Locals == {NoneVal, <<"a", ".", "i", "c", "s">>}

\* Values of -s: none, and one tag.
Searches == {<<>>, << <<"#", "a">> >>}

\* Values of -d: the default, and a word that is no date.
Dates == {Today, <<"n", "o", "t", "-", "a", "-", "d", "a", "t", "e">>}

\* Values of -w: not given, empty, a known extension in lower and in upper
\* case, an unknown one, none, a name that is all extension, and an extension
\* on the directory only.
Writes ==
    { NoneVal, <<>>,
      <<"o", ".", "c", "s", "v">>, <<"o", ".", "C", "S", "V">>,
      <<"o", ".", "t", "x", "t">>, <<"o">>,
      <<".", "c", "s", "v">>, <<"a", ".", "c", "s", "v", "/", "o">> }

\* Values of -e: not given, and a format.
ExportOptions == {NoneVal, <<"j", "s", "o", "n">>}

\* What the source holds: nothing, an event with the tag searched for, an
\* event without DTEND after one that starts later, and an event of another
\* day with an entry that is dropped.
Feeds == { <<>>, <<Meeting>>, <<Standup, Early>>, <<NextDay, Late>> }

InitCli ==
    /\ pc = "start"
    /\ params \in [calendar : Calendars, local : Locals, search : Searches,
                   date : Dates, write : Writes, export : ExportOptions,
                   terminal : BOOLEAN, credentials : {NoneVal}]
    /\ world \in [fails : {"nothing", "fetcher", "fetch", "export", "terminal"},
                  entries : Feeds]
    /\ now \in Nows
    /\ trace = <<>> /\ exit_code = 0 /\ export = NoneVal /\ terminal = FALSE
    /\ date_string = <<>> /\ date_range = <<>> /\ calls = <<>> /\ message = <<>>
    /\ text = NoneVal /\ tags = <<>> /\ hashtag_terms = <<>> /\ groups = <<>>
    /\ events = <<>> /\ input = <<>> /\ arg = <<>> /\ before = <<>>
    /\ result = <<>> /\ first = <<>>
    /\ range_start = 0 /\ range_end = 0
    /\ NoCall

\* The command runs: click calls main with the options.
RunMain ==
    /\ pc = "start"
    /\ LET run == main(params, world, now) IN
          /\ raised' = run.raised
          /\ message' = run.message
          /\ exit_code' = run.exit_code
          /\ trace' = run.trace
          /\ events' = run.heap
          /\ result' = run.events
          /\ date_range' = run.date_range
          /\ export' = run.export
          /\ terminal' = run.terminal
    /\ pc' = "done"
    /\ called' = "main"
    /\ UNCHANGED <<text, tags, hashtag_terms, groups, input, arg, before, first,
                   range_start, range_end, date_string, now, calls, params,
                   world>>

NextCli == RunMain

SpecCli == InitCli /\ [][NextCli]_vars

----------------------------------------------------------------------------
(* Properties of extract_hashtags (checked under SpecExtract).             *)

\* The maximal matches of '#' followed by one or more word characters in s,
\* as pairs of first and last position.
MaximalMatches(s) ==
    {ij \in (1..Len(s)) \X (1..Len(s)) :
        /\ ij[1] < ij[2]
        /\ s[ij[1]] = "#"
        /\ \A k \in (ij[1] + 1)..ij[2] : IsWord(s[k])
        /\ ij[2] = Len(s) \/ ~IsWord(s[ij[2] + 1])}

\* q lists the maximal matches of s from left to right.
ListsMaximalMatches(q, s) ==
    /\ Len(q) = Cardinality(MaximalMatches(s))
    /\ \A ij \in MaximalMatches(s) :
          q[1 + Cardinality({m \in MaximalMatches(s) : m[1] < ij[1]})]
              = SubSeq(s, ij[1], ij[2])

\* C10: extract_hashtags(None) and extract_hashtags("") return the empty
\* sequence; for any other text it returns every maximal match of '#' followed
\* by one or more word characters, from left to right, duplicates kept, case
\* as in the text, and nothing else.
C10_ExtractReturnsMaximalMatchesInOrder ==
    pc = "done" =>
        IF text = NoneVal \/ text = <<>> THEN tags = <<>>
        ELSE ListsMaximalMatches(tags, text)

\* A text that begins with another character and holds the same upper-case
\* tag twice.
C10_Witness ==
    /\ pc = "done"
    /\ tags = << <<"#", "A">>, <<"#", "A">> >>
    /\ Head(text) = " "

----------------------------------------------------------------------------
(* Properties of filter_events (checked under SpecFilter).                 *)

Range(q) == {q[k] : k \in 1..Len(q)}

\* A call of filter_events has returned.
Filtered == pc \in {"filtered", "refiltered"}

\* The lowercased hashtags of the description the object r had when the call began.
DescriptionTags(r) == LowerSet(extract_hashtags(before[r].description))

\* C1: with a non-empty list of search terms, filter_events returns an event
\* if and only if at least one AND group parsed from the terms is a subset of
\* the set of lowercased hashtags extracted from the event's description.
C1_IncludedIffSomeGroupIsSubset ==
    (Filtered /\ hashtag_terms # <<>>) =>
        \A r \in Range(arg) :
            (r \in Range(result)) <=>
                (\E g \in Range(_parse_hashtag_groups(hashtag_terms)) :
                    g \subseteq DescriptionTags(r))

\* Two search terms, one of them an AND group of two tags that selects an
\* event the other term does not select, and a second event that is left out.
C1_Witness ==
    /\ pc = "filtered"
    /\ Len(hashtag_terms) = 2 /\ Len(arg) = 2 /\ Len(result) = 1
    /\ \E g \in Range(_parse_hashtag_groups(hashtag_terms)) :
          /\ Cardinality(g) = 2
          /\ g \subseteq DescriptionTags(result[1])
    /\ \E g \in Range(_parse_hashtag_groups(hashtag_terms)) :
          ~(g \subseteq DescriptionTags(result[1]))

\* C2: with an empty list of search terms, filter_events returns the list it
\* was given, and no field of any event is modified.
C2_NoTermsIsIdentity ==
    (Filtered /\ hashtag_terms = <<>>) => (result = arg /\ events = before)

\* No search term, two events, one of which holds a hashtags field that is
\* not what its description holds.
C2_Witness ==
    /\ pc = "filtered" /\ hashtag_terms = <<>> /\ Len(result) = 2
    /\ \E r \in Range(result) :
          events[r].hashtags # extract_hashtags(events[r].description)

\* C3: the list filter_events returns is a subsequence of the list it was
\* given: same relative order, nothing twice, nothing that was not given.
C3_ResultIsSubsequence ==
    Filtered =>
        \E f \in [1..Len(result) -> 1..Len(arg)] :
            /\ \A k \in 1..Len(result) : result[k] = arg[f[k]]
            /\ \A k \in 1..(Len(result) - 1) : f[k] < f[k + 1]

\* Two events returned under search terms of which two select the same event.
C3_Witness ==
    /\ pc = "filtered" /\ Len(result) = 2
    /\ \E m, n \in 1..Len(hashtag_terms) :
          /\ m # n
          /\ _parse_hashtag_groups(hashtag_terms)[m] \subseteq DescriptionTags(result[1])
          /\ _parse_hashtag_groups(hashtag_terms)[n] \subseteq DescriptionTags(result[1])

\* C5: after filter_events with a non-empty list of search terms, every
\* event of the result holds in its hashtags field the sequence
\* extract_hashtags(description): original case, original order, duplicates
\* kept, whatever the field held before the call.
C5_ResultHashtagsAreReExtracted ==
    (Filtered /\ hashtag_terms # <<>>) =>
        \A r \in Range(result) :
            /\ ListsMaximalMatches(events[r].hashtags, events[r].description)
            /\ events[r].description = before[r].description

\* An event returned whose field held something else before the call and now
\* holds one tag twice, in the two cases of the description.
C5_Witness ==
    /\ pc = "filtered" /\ hashtag_terms # <<>>
    /\ \E r \in Range(result) :
          /\ before[r].hashtags = StaleHashtags
          /\ events[r].hashtags = << <<"#", "B">>, <<"#", "b">> >>

\* C6: filter_events is idempotent: filter_events(filter_events(E, T), T)
\* returns the same events in the same order, with the same hashtags fields,
\* as filter_events(E, T).
C6_FilterEventsIsIdempotent ==
    pc = "refiltered" =>
        /\ result = first[1].returned
        /\ events = first[1].heap

\* A second call on the one event that the first call selected from two under
\* search terms, storing its two hashtags.
C6_Witness ==
    /\ pc = "refiltered" /\ hashtag_terms # <<>>
    /\ Len(input) = 2 /\ Len(result) = 1
    /\ Len(events[result[1]].hashtags) = 2

----------------------------------------------------------------------------
(* Respelling a search tag (checked under SpecVariant).                    *)

\* The other case of a letter.
SwapCase(c) ==
    CASE c = "a" -> "A"
      [] c = "A" -> "a"
      [] c = "b" -> "B"
      [] c = "B" -> "b"
      [] OTHER -> c

\* ",".join(pieces)
RECURSIVE Join(_)
Join(pieces) ==
    IF Len(pieces) = 1 THEN pieces[1]
    ELSE pieces[1] \o <<",">> \o Join(Tail(pieces))

\* The tag p with one letter in the other case.
CaseEdits(p) == {[p EXCEPT ![i] = SwapCase(p[i])] : i \in 1..Len(p)}

\* The tag p with one more or one less white space before or behind it.
SpaceEdits(p) ==
    {<<" ">> \o p, p \o <<" ">>}
        \cup (IF p # <<>> /\ IsSpace(Head(p)) THEN {Tail(p)} ELSE {})
        \cup (IF p # <<>> /\ IsSpace(p[Len(p)]) THEN {SubSeq(p, 1, Len(p) - 1)} ELSE {})

\* The tag p with one more or one less leading '#'.
HashEdits(p) ==
    {<<"#">> \o p} \cup (IF StartsWithHash(p) THEN {Tail(p)} ELSE {})

\* A tag text that begins neither with '#' nor with white space.
Bare(u) == u = <<>> \/ (Head(u) # "#" /\ ~IsSpace(Head(u)))

\* The tag p with a '#' put before, or taken from before, a bare tag text.
BareHashEdits(p) ==
    (IF Bare(p) THEN {<<"#">> \o p} ELSE {})
        \cup (IF StartsWithHash(p) /\ Bare(Tail(p)) THEN {Tail(p)} ELSE {})

\* The search terms with tag k of term n replaced by v.
WithTag(terms, n, k, v) ==
    [terms EXCEPT ![n] = Join([Split(terms[n]) EXCEPT ![k] = v])]

\* The respellings of the tag p of one kind.
EditsOf(kind, p) ==
    CASE kind = "case" -> CaseEdits(p)
      [] kind = "space" -> SpaceEdits(p)
      [] kind = "hash" -> HashEdits(p)
      [] kind = "bare hash" -> BareHashEdits(p)

\* Every respelling of the given kinds of a tag of the search terms selects
\* what the terms as given selected.
SameSelection(kinds) ==
    \A n \in 1..Len(hashtag_terms) :
        \A k \in 1..Len(Split(hashtag_terms[n])) :
            \A kind \in kinds :
                \A v \in EditsOf(kind, Split(hashtag_terms[n])[k]) :
                    filter_events(before, arg, WithTag(hashtag_terms, n, k, v))
                        = [heap |-> events, returned |-> result]

\* C4 (as amended): replacing a search tag by a variant that differs only in
\* letter case, in surrounding white space, or in a leading '#' before a tag
\* text that itself begins neither with '#' nor with white space, yields the
\* same filter_events result.
C4_SpellingVariantsSelectTheSame ==
    Filtered => SameSelection({"case", "space", "bare hash"})

\* C4 (as claimed): a variant that differs in letter case, in a leading '#' or
\* in surrounding white space, whatever the tag, yields the same result.
C4_AnyLeadingHashSelectsTheSame ==
    Filtered => SameSelection({"case", "space", "hash"})

\* A padded upper-case tag that selects one of two events.
C4_Witness ==
    /\ pc = "filtered" /\ Len(arg) = 2 /\ Len(result) = 1
    /\ \E n \in 1..Len(hashtag_terms) :
          /\ hashtag_terms[n] # <<>>
          /\ IsSpace(Head(hashtag_terms[n]))
          /\ Lower(hashtag_terms[n]) # hashtag_terms[n]
          /\ _parse_hashtag_groups(hashtag_terms)[n] \subseteq DescriptionTags(result[1])

----------------------------------------------------------------------------
(* Properties of filter_by_date_range (checked under SpecDate).            *)

\* event.start <= event.end for every event of the heap
WellFormed == \A r \in 1..Len(events) : events[r].start <= events[r].end

\* The overlap test of the spec on the object r.
Overlaps(r) == events[r].start <= range_end /\ events[r].end >= range_start

\* C7: filter_by_date_range(events, start, end) returns exactly the events
\* with event.start <= end and event.end >= start, both bounds inclusive, in
\* input order, and modifies no event and not the input list.
C7_DateRangeKeepsExactlyOverlapping ==
    pc = "done" =>
        /\ result = SelectSeq(arg, Overlaps)
        /\ events = before
        /\ input = arg

\* Of two events the first is left out and the second, which starts at the
\* very end of the range and ends behind it, is kept.
C7_Witness ==
    /\ pc = "done" /\ range_start < range_end
    /\ Len(arg) = 2 /\ result = <<2>>
    /\ events[2].start = range_end /\ events[2].end > range_end

\* C8 (as amended): an inverted query range (start > end) matches only events
\* that cover both of its bounds: on well-formed events the result holds
\* exactly the events with event.start <= end < start <= event.end, each at
\* least as long as the range is inverted, and is empty when there is none.
C8_InvertedRangeKeepsOnlySpanningEvents ==
    (pc = "done" /\ range_start > range_end /\ WellFormed) =>
        /\ \A r \in Range(arg) :
              (r \in Range(result)) <=>
                  (events[r].start <= range_end /\ range_start <= events[r].end)
        /\ \A r \in Range(result) :
              events[r].end - events[r].start >= range_start - range_end
        /\ (\A r \in Range(arg) : events[r].end - events[r].start < range_start - range_end)
              => result = <<>>

\* C8 (as claimed): for every start > end and every list of well-formed
\* events, filter_by_date_range returns the empty list.
C8_InvertedRangeMatchesNothing ==
    (pc = "done" /\ range_start > range_end /\ WellFormed) => result = <<>>

\* An inverted range over well-formed events of which one is kept and one is not.
C8_Witness ==
    /\ pc = "done" /\ range_start > range_end /\ WellFormed
    /\ Len(arg) = 2 /\ Len(result) = 1

----------------------------------------------------------------------------
(* Properties of _parse_hashtag_groups (checked under SpecGroups).         *)

\* The pieces of the term t between its commas: the substrings t[a..b] without
\* a comma that a comma or an end of t bounds on either side.
Pieces(t) ==
    {SubSeq(t, ab[1], ab[2]) :
        ab \in {xy \in (1..(Len(t) + 1)) \X (0..Len(t)) :
                   /\ xy[1] <= xy[2] + 1
                   /\ xy[1] = 1 \/ t[xy[1] - 1] = ","
                   /\ xy[2] = Len(t) \/ t[xy[2] + 1] = ","
                   /\ \A i \in xy[1]..xy[2] : t[i] # ","}}

\* n is the piece p without its surrounding white space, with a '#' put before
\* it unless it begins with one, in lower case.
IsNormalFormOf(n, p) ==
    \E a \in 1..(Len(p) + 1), b \in 0..Len(p) :
        /\ a <= b + 1
        /\ \A i \in 1..(a - 1) : IsSpace(p[i])
        /\ \A i \in (b + 1)..Len(p) : IsSpace(p[i])
        /\ a <= b => (~IsSpace(p[a]) /\ ~IsSpace(p[b]))
        /\ LET core == SubSeq(p, a, b)
               hashed == IF a <= b /\ p[a] = "#" THEN core ELSE <<"#">> \o core
           IN  /\ Len(n) = Len(hashed)
               /\ \A i \in 1..Len(n) :
                     n[i] = (IF hashed[i] \in {"A", "B"} THEN SwapCase(hashed[i])
                             ELSE hashed[i])

\* C9: _parse_hashtag_groups returns exactly one group per term, in term
\* order; the group of term t is the set of the normal forms of the pieces of
\* t between commas (one piece when t has no comma), and every member of
\* every group is lower case and starts with '#'.
C9_OneGroupOfNormalFormsPerTerm ==
    pc = "done" =>
        /\ Len(groups) = Len(hashtag_terms)
        /\ \A n \in 1..Len(hashtag_terms) :
              /\ \A p \in Pieces(hashtag_terms[n]) :
                    \E g \in groups[n] : IsNormalFormOf(g, p)
              /\ \A g \in groups[n] :
                    /\ \E p \in Pieces(hashtag_terms[n]) : IsNormalFormOf(g, p)
                    /\ Head(g) = "#"
                    /\ \A i \in 1..Len(g) : g[i] \notin {"A", "B"}

\* Two terms; the first has a comma, an empty piece and a padded upper-case
\* piece and gives a group of two tags, the second gives a group of its own.
C9_Witness ==
    /\ pc = "done" /\ Len(hashtag_terms) = 2
    /\ hashtag_terms[1] = <<",", " ", "A">>
    /\ groups[1] = {<<"#">>, <<"#", "a">>}
    /\ groups[2] # groups[1]

----------------------------------------------------------------------------
(* Failures of the extractor and of the group parser (checked under        *)
(* SpecLeaves).                                                            *)

\* C11 (as amended): extract_hashtags never fails, and returns the empty
\* sequence for None and for the empty string; _parse_hashtag_groups never
\* fails on a list of strings, and returns no group for the empty list; handed
\* None in place of the list it raises TypeError.
C11_LeavesFailOnlyOnMissingTermList ==
    /\ called = "extract_hashtags" =>
          /\ raised = "none"
          /\ (text = NoneVal \/ text = <<>>) => tags = <<>>
    /\ called = "_parse_hashtag_groups" =>
          IF hashtag_terms = NoneList THEN raised = "TypeError"
          ELSE /\ raised = "none"
               /\ hashtag_terms = <<>> => groups = <<>>
               /\ Len(groups) = Len(hashtag_terms)

\* C11 (as claimed): neither function fails on any input, None included, and
\* missing or empty input gives an empty result.
C11_LeavesNeverFail ==
    called # "" =>
        /\ raised = "none"
        /\ (called = "extract_hashtags" /\ (text = NoneVal \/ text = <<>>))
              => tags = <<>>
        /\ (called = "_parse_hashtag_groups" /\ hashtag_terms \in {NoneList, <<>>})
              => groups = <<>>

\* The group parser was handed None in place of the list of search terms.
C11_Witness ==
    /\ called = "_parse_hashtag_groups"
    /\ hashtag_terms = NoneList
    /\ pc = "done"

----------------------------------------------------------------------------
(* Events without a description (checked under SpecFilter).                *)

\* C12: filter_events does not fail on an event whose description is None:
\* with a non-empty list of search terms, such an event is not in the result
\* and its hashtags field is what it was before the call.
C12_NoDescriptionIsExcludedAndUntouched ==
    (called = "filter_events" /\ hashtag_terms # <<>>) =>
        /\ raised = "none"
        /\ \A i \in 1..Len(arg) :
              before[arg[i]].description = NoneVal =>
                  /\ arg[i] \notin Range(result)
                  /\ events[arg[i]].hashtags = before[arg[i]].hashtags

\* Two events were filtered: the first has no description and holds hashtags
\* from before the call, the second matched.
C12_Witness ==
    /\ pc = "filtered"
    /\ hashtag_terms # <<>>
    /\ Len(arg) = 2
    /\ before[arg[1]].description = NoneVal
    /\ before[arg[1]].hashtags = StaleHashtags
    /\ result = <<arg[2]>>

----------------------------------------------------------------------------
(* Properties of parse_date_range (checked under SpecParser).              *)

\* The date string of the call without the white space around it.
Trimmed == Strip(date_string)

\* A date, or a date and HH:MM joined by "T".
IsRangeToken(t) ==
    \/ IsDatePattern(t)
    \/ /\ Len(t) = 16
       /\ IsDatePattern(SubSeq(t, 1, 10))
       /\ t[11] = "T"
       /\ IsHourMinutePattern(SubSeq(t, 12, 16))

\* The positions of a colon of s that has a range token on either side.
RangeColons(s) ==
    {k \in 1..Len(s) :
        /\ s[k] = ":"
        /\ IsRangeToken(SubSeq(s, 1, k - 1))
        /\ IsRangeToken(SubSeq(s, k + 1, Len(s)))}

\* s is YYYY-MM-DD[THH:MM]:YYYY-MM-DD[THH:MM].
IsRangeString(s) == RangeColons(s) # {}

\* The tokens of the date string: the two sides of a range, or the string.
Tokens(s) ==
    IF IsRangeString(s)
    THEN LET k == CHOOSE k \in RangeColons(s) : TRUE
         IN  <<SubSeq(s, 1, k - 1), SubSeq(s, k + 1, Len(s))>>
    ELSE <<s>>

\* The instant a range token names, at the given time of day when it is a
\* date alone, in the local timezone.
TokenInstant(t, hour, minute, second) ==
    LET year == Number(SubSeq(t, 1, 4))
        month == Number(SubSeq(t, 6, 7))
        day == Number(SubSeq(t, 9, 10))
    IN  IF Len(t) = 10
        THEN datetime(year, month, day, hour, minute, second, 0, "local")
        ELSE datetime(year, month, day, Number(SubSeq(t, 12, 13)),
                      Number(SubSeq(t, 15, 16)), 0, 0, "local")

\* C13: parse_date_range of "today", in any letter case and with white space
\* around it, returns 00:00:00.000000 and 23:59:59 of the current local date in
\* the local timezone, and hands nothing to the date parser.
C13_TodayIsTheCurrentLocalDay ==
    (called = "parse_date_range" /\ Lower(Trimmed) = Today) =>
        /\ raised = "none"
        /\ calls = <<>>
        /\ date_range =
              << datetime(now.year, now.month, now.day, 0, 0, 0, 0, "local"),
                 datetime(now.year, now.month, now.day, 23, 59, 59, 0, "local") >>

\* "TODAY" behind a space was parsed at a time that is not a whole second.
C13_Witness ==
    /\ pc = "done"
    /\ date_string = <<" ", "T", "O", "D", "A", "Y">>
    /\ now.microsecond # 0
    /\ Len(date_range) = 2

\* C14: for a valid date YYYY-MM-DD, parse_date_range returns that day at
\* 00:00:00 and at 23:59:59, local.
C14_PureDateIsTheWholeDay ==
    (/\ called = "parse_date_range"
     /\ IsDatePattern(Trimmed)
     /\ date_parser_parse(Trimmed, now).ok) =>
        /\ raised = "none"
        /\ date_range = << TokenInstant(Trimmed, 0, 0, 0),
                           TokenInstant(Trimmed, 23, 59, 59) >>

\* The last day of the month was parsed.
C14_Witness ==
    /\ pc = "done"
    /\ Trimmed = LastDay
    /\ Len(date_range) = 2
    /\ date_range[2].day = 28 /\ date_range[2].second = 59

\* C15: the string is split iff, trimmed, it is a range string; the start is
\* then the first token (at 00:00:00 when a date alone) and the end the second
\* (at 23:59:59 when a date alone).  Every other string with a colon is handed
\* whole to the date parser.
C15_SplitIffStrictRange ==
    called = "parse_date_range" =>
        /\ IsRangeString(Trimmed) =>
              /\ calls # <<>>
              /\ calls = SubSeq(Tokens(Trimmed), 1, Len(calls))
              /\ raised = "none" =>
                    /\ calls = Tokens(Trimmed)
                    /\ date_range =
                          << TokenInstant(Tokens(Trimmed)[1], 0, 0, 0),
                             TokenInstant(Tokens(Trimmed)[2], 23, 59, 59) >>
        /\ (Contains(Trimmed, ":") /\ ~IsRangeString(Trimmed)) =>
              calls = <<Trimmed>>

\* A range from a date alone to a date with a time was parsed.
C15_Witness ==
    /\ pc = "done"
    /\ Trimmed = FirstDay \o <<":">> \o LastDay \o <<"T">> \o Evening
    /\ Len(date_range) = 2
    /\ date_range[1].hour = 0 /\ date_range[2].hour = 17

\* The string is one datetime with a time of day, and the parser reads it.
IsSingleDatetime(s) ==
    /\ Lower(s) # Today
    /\ ~IsRangeString(s)
    /\ Contains(s, "T") \/ Contains(s, " ")
    /\ date_parser_parse(s, now).ok

\* What the parser reads from s, in the local timezone when s names none.
Parsed(s) ==
    LET dt == date_parser_parse(s, now).dt
    IN  IF dt.tzinfo = "None" THEN [dt EXCEPT !.tzinfo = "local"] ELSE dt

\* C16 (as amended): for a single datetime with a time of day the start is
\* the instant parsed, and the end is that day at 23:59:59 with the
\* microsecond and the timezone of the start.
C16_SingleDatetimeEndsAtDayEnd ==
    (called = "parse_date_range" /\ IsSingleDatetime(Trimmed)) =>
        /\ raised = "none"
        /\ calls = <<Trimmed>>
        /\ date_range[1] = Parsed(Trimmed)
        /\ date_range[2] =
              datetime(Parsed(Trimmed).year, Parsed(Trimmed).month,
                       Parsed(Trimmed).day, 23, 59, 59,
                       Parsed(Trimmed).microsecond, Parsed(Trimmed).tzinfo)

\* C16 (as claimed): for a single datetime with a time of day both the start
\* and the end are the instant parsed.
C16_SingleDatetimeEndKeepsItsTime ==
    (called = "parse_date_range" /\ IsSingleDatetime(Trimmed)) =>
        /\ raised = "none"
        /\ date_range[1] = Parsed(Trimmed)
        /\ date_range[2] = Parsed(Trimmed)

\* A datetime at nine in the morning was parsed, and the end is not at nine.
C16_Witness ==
    /\ pc = "done"
    /\ Trimmed = FirstDay \o <<"T">> \o Morning
    /\ date_range[1].hour = 9
    /\ date_range[2].hour # 9

\* The tokens the date parser cannot read.
BadTokens(s) ==
    {i \in 1..Len(Tokens(s)) : ~date_parser_parse(Tokens(s)[i], now).ok}

C18_StartNotAfterEndUnlessOutOfOrder ==
    (called = "parse_date_range" /\ raised = "none") =>
        \/ NotAfter(date_range[1], date_range[2])
        \/ /\ IsRangeString(Trimmed)
           /\ ~NotAfter(Parsed(Tokens(Trimmed)[1]), Parsed(Tokens(Trimmed)[2]))

\* A datetime in the last second of its day, with a fraction, was parsed: its
\* start is its end.
C18_Witness ==
    /\ pc = "done"
    /\ Trimmed = LastDay \o <<"T">> \o LastSecond
    /\ Len(date_range) = 2
    /\ date_range[1] = date_range[2]
    /\ date_range[1].microsecond = 500000

----------------------------------------------------------------------------
(* Properties of the command (checked under SpecCli).                      *)

\* No step of the pipeline was begun: no date parsing, no fetcher, no fetch,
\* no filter, no export.
NothingRan == trace = <<>> /\ date_range = <<>> /\ result = <<>>

\* main ended with a usage error.
UsageErrorBeforeAnything ==
    raised = "UsageError" /\ exit_code # 0 /\ NothingRan

\* C19 (as amended): with no -l and a -c that is absent or empty, or with -l
\* and a non-empty -c, the command ends with a usage error and a non-zero exit
\* code before any step of the pipeline; an empty -c beside -l counts as
\* absent, and the run goes on with the local file.
C19_ExactlyOneNonEmptySource ==
    called = "main" =>
        LET calendar == params.calendar \notin {NoneVal, <<>>}
            local == params.local # NoneVal
        IN  /\ (calendar <=> local) => UsageErrorBeforeAnything
            /\ (params.calendar = <<>> /\ local /\ raised # "UsageError") =>
                  /\ trace # <<>>
                  /\ Len(trace) >= 2 => trace[2] = Step("fetcher", params.local)

\* C19 (as claimed): with neither -c nor -l, or with both, the command ends
\* with a usage error and a non-zero exit code before any step of the pipeline.
C19_ExactlyOneSourceGiven ==
    (/\ called = "main"
     /\ (params.calendar # NoneVal) <=> (params.local # NoneVal))
        => UsageErrorBeforeAnything

\* Both a calendar id and a local file were given.
C19_Witness ==
    /\ pc = "done"
    /\ params.calendar = <<"i", "d">>
    /\ params.local # NoneVal
    /\ raised = "UsageError"
    /\ exit_code = 2

\* The sources are as main wants them.
OneSource == SourceUsageError(params.calendar, params.local) = <<>>

\* The final component of a path.
FileName(path) ==
    IF Contains(path, "/")
    THEN LET k == CHOOSE k \in 1..Len(path) :
                      path[k] = "/" /\ ~Contains(SubSeq(path, k + 1, Len(path)), "/")
         IN  SubSeq(path, k + 1, Len(path))
    ELSE path

\* The extensions of a file name: what stands behind a dot of the name that
\* is not its first character, when that is not empty and holds no dot.
Extensions(name) ==
    {SubSeq(name, k + 1, Len(name)) : k \in
        {k \in 2..(Len(name) - 1) :
            name[k] = "." /\ ~Contains(SubSeq(name, k + 1, Len(name)), ".")}}

\* The file's extension is one of the formats, in whatever case.
KnownExtension(path) ==
    \E e \in Extensions(FileName(path)) : Lower(e) \in Formats

\* The steps of the trace that export to a file.
FileExports == {i \in 1..Len(trace) : trace[i].step = "export"}

\* C20 (as amended): with sources in order, a non-empty -w and no -e, the
\* format is the file's extension in lower case when that is a format, and the
\* command ends with a usage error before any step otherwise; a -e that is
\* given is the format whatever the extension; an empty -w without -e counts
\* as absent: no format, no usage error, output to the terminal.
C20_FormatFromExtensionOfNonEmptyPath ==
    (called = "main" /\ OneSource) =>
        /\ (Truthy(params.write) /\ params.export = NoneVal) =>
              IF KnownExtension(params.write)
              THEN /\ raised # "UsageError"
                   /\ \E e \in Extensions(FileName(params.write)) : export = Lower(e)
                   /\ \A i \in FileExports : trace[i].with = export
              ELSE UsageErrorBeforeAnything
        /\ params.export # NoneVal =>
              /\ raised # "UsageError"
              /\ export = params.export
              /\ \A i \in FileExports : trace[i].with = params.export
              /\ (Truthy(params.write) /\ raised = "none" /\ result # <<>>)
                    => FileExports # {}
        /\ (params.write = <<>> /\ params.export = NoneVal) =>
              /\ raised # "UsageError"
              /\ export = NoneVal
              /\ terminal
              /\ FileExports = {}

\* C20 (as claimed): with sources in order, a -w and no -e, the format is the
\* file's extension in lower case when that is a format, and the command ends
\* with a usage error before any step otherwise; a -e that is given is the
\* format whatever the extension.
C20_FormatFromExtension ==
    (called = "main" /\ OneSource) =>
        /\ (params.write # NoneVal /\ params.export = NoneVal) =>
              IF KnownExtension(params.write)
              THEN /\ raised # "UsageError"
                   /\ \E e \in Extensions(FileName(params.write)) : export = Lower(e)
              ELSE UsageErrorBeforeAnything
        /\ params.export # NoneVal =>
              /\ raised # "UsageError"
              /\ export = params.export
              /\ \A i \in FileExports : trace[i].with = params.export

\* A file with the extension in upper case was written without -e.
C20_Witness ==
    /\ pc = "done"
    /\ params.write = <<"o", ".", "C", "S", "V">>
    /\ params.export = NoneVal
    /\ export = <<"c", "s", "v">>
    /\ \E i \in 1..Len(trace) : trace[i] = Step("export", <<"c", "s", "v">>)

----------------------------------------------------------------------------
(* Properties of the fetchers (checked under SpecFetch).                   *)

\* The entries of the calendar that are events, parse, and overlap the range
\* from start to end.
Selected(entries, start, end) ==
    {i \in 1..Len(entries) :
        /\ entries[i].name = "VEVENT"
        /\ _parse_event(entries[i]) # <<>>
        /\ NotAfter(_parse_event(entries[i])[1].start, end)
        /\ NotAfter(start, _parse_event(entries[i])[1].end)}

\* C21: fetch(start, end) of LocalICalFetcher and of ICalFetcher returns
\* exactly the events of the calendar that parse and have start <= end and
\* end >= start, each once, in non-decreasing order of their start.
C21_FetchReturnsOverlappingEventsByStart ==
    called = "fetch" =>
        /\ \E f \in [1..Len(result) -> Selected(world.entries, date_range[1],
                                                 date_range[2])] :
              /\ \A i, j \in 1..Len(result) : i # j => f[i] # f[j]
              /\ \A i \in Selected(world.entries, date_range[1], date_range[2]) :
                    \E k \in 1..Len(result) : f[k] = i
              /\ \A k \in 1..Len(result) :
                    events[result[k]] = _parse_event(world.entries[f[k]])[1]
        /\ \A k \in 1..(Len(result) - 1) :
              NotAfter(events[result[k]].start, events[result[k + 1]].start)

\* A fetch returned two events, the later entry of the calendar first, from a
\* calendar of which it left nothing out.
C21_Witness ==
    /\ called = "fetch"
    /\ Len(result) = 2
    /\ events[result[1]] = _parse_event(world.entries[2])[1]
    /\ events[result[1]].start # events[result[2]].start

\* The entries of the calendar that have a start and no end.
WithoutEnd(entries) ==
    {i \in 1..Len(entries) : entries[i].dtstart # <<>> /\ entries[i].dtend = <<>>}

\* The start the fetcher that was called gives to an entry.
StartOf(entry) ==
    IF called = "fetch" THEN _normalize_datetime(entry.dtstart[1])
    ELSE GoogleAPIFetcher_parse_datetime(entry.dtstart[1])

\* The returned events made from the entry: those of its summary and start.
EventsOf(entry) ==
    {k \in 1..Len(result) :
        /\ events[result[k]].summary = (IF entry.summary = <<>> THEN NoTitle
                                        ELSE entry.summary[1])
        /\ events[result[k]].start = StartOf(entry)}

\* C25: an entry without an end time becomes an event whose end is its start
\* with the hour field one higher; when the start is in hour 23 no event is
\* made of the entry, and the fetch returns the other events without failing.
\* This holds for the iCal fetchers and for GoogleAPIFetcher.
C25_NoEndMeansHourPlusOneOrDropped ==
    called \in {"fetch", "GoogleAPIFetcher.fetch"} =>
        /\ raised = "none"
        /\ \A i \in WithoutEnd(world.entries) :
              IF StartOf(world.entries[i]).hour = 23
              THEN EventsOf(world.entries[i]) = {}
              ELSE /\ \A k \in EventsOf(world.entries[i]) :
                        events[result[k]].end =
                            [StartOf(world.entries[i]) EXCEPT !.hour = @ + 1]
                   /\ ( \/ called = "GoogleAPIFetcher.fetch"
                        \/ i \in Selected(world.entries, date_range[1],
                                           date_range[2]) )
                        => EventsOf(world.entries[i]) # {}

\* A fetch of 2026-02-01 from a calendar with an entry at 08:00 and one at
\* 23:00, both without an end, returned the first alone, ending at 09:00.
C25_Witness ==
    /\ called = "fetch"
    /\ world.entries = <<Late, Early>>
    /\ date_string = FirstDay
    /\ Len(result) = 1
    /\ events[result[1]].start.hour = 8 /\ events[result[1]].end.hour = 9

----------------------------------------------------------------------------
(* The range of a day and the overlap test (checked under SpecDay).        *)

\* C24: with the range parse_date_range returns for a date D, the overlap
\* test keeps exactly the events that start at or before D 23:59:59.000000
\* and end at or after D 00:00:00: it keeps an event starting exactly at
\* D 23:59:59 and one ending exactly at D 00:00:00, and it leaves out every
\* event starting after D 23:59:59, also one starting within that last second.
C24_DayRangeIsInclusiveUpToLastWholeSecond ==
    pc = "ranged" =>
        /\ \A i \in 1..Len(input) :
              (\E k \in 1..Len(result) : result[k] = input[i])
                  <=> /\ NotAfter(events[input[i]].start,
                                  TokenInstant(date_string, 23, 59, 59))
                      /\ NotAfter(TokenInstant(date_string, 0, 0, 0),
                                  events[input[i]].end)
        /\ \A i \in 1..Len(input) :
              /\ events[input[i]].start = TokenInstant(date_string, 23, 59, 59)
                    => \E k \in 1..Len(result) : result[k] = input[i]
              /\ events[input[i]].end = TokenInstant(date_string, 0, 0, 0)
                    => \E k \in 1..Len(result) : result[k] = input[i]
              /\ ~NotAfter(events[input[i]].start,
                           TokenInstant(date_string, 23, 59, 59))
                    => \A k \in 1..Len(result) : result[k] # input[i]

\* The events of 2026-02-01 were chosen among one that starts at 23:59:59
\* and one that starts half a second later: the first alone was kept.
C24_Witness ==
    /\ pc = "ranged"
    /\ date_string = FirstDay
    /\ Len(input) = 2
    /\ events[input[1]].start = Local(2, 1, 23, 59, 59, 500000)
    /\ events[input[1]].end = Local(2, 1, 23, 59, 59, 500000)
    /\ events[input[2]].start = Local(2, 1, 23, 59, 59, 0)
    /\ result = <<input[2]>>

----------------------------------------------------------------------------
(* The duration of an event (checked under SpecDuration).                  *)

\* The whole minutes from the start of the event to its end.
Minutes(event) == total_seconds(event) \div 60

\* H:MM for m minutes: the hours as they are, the minutes in two digits.
HoursAndMinutes(m) ==
    Str(m \div 60) \o <<":">> \o Str((m % 60) \div 10) \o Str((m % 60) % 10)

\* C22: for every event whose duration is a whole number m >= 0 of minutes,
\* duration_formatted is H:MM with H = m div 60 and MM = m mod 60 in two
\* digits, and duration_hours is m / 60.
C22_DurationOfWholeMinutes ==
    pc = "done" =>
        /\ result.duration_formatted = HoursAndMinutes(Minutes(events[input[1]]))
        /\ result.duration_hours = TrueDivide(Minutes(events[input[1]]), 60)

\* The duration of an event of 123 minutes was read as "2:02".
C22_Witness ==
    /\ pc = "done"
    /\ Minutes(events[input[1]]) = 123
    /\ result.duration_formatted = <<"2", ":", "0", "2">>

----------------------------------------------------------------------------
(* More properties of filter_events (checked under SpecFilter).            *)

\* The lists that hold the elements of q in some order.
Reorderings(q) ==
    {[i \in 1..Len(q) |-> q[f[i]]] :
        f \in {g \in [1..Len(q) -> 1..Len(q)] :
                  \A i, j \in 1..Len(q) : i # j => g[i] # g[j]}}

\* C23: the order of the search terms does not matter: the call with the
\* terms in any other order returns the same events in the same order and
\* leaves the same hashtags fields.
C23_TermOrderIsIrrelevant ==
    pc = "filtered" =>
        \A terms \in Reorderings(hashtag_terms) :
            filter_events(before, arg, terms)
                = [heap |-> events, returned |-> result]

\* Two different terms were given, one event was selected by the first term
\* alone and another by the second alone.
C23_Witness ==
    /\ pc = "filtered"
    /\ Len(hashtag_terms) = 2
    /\ hashtag_terms[1] # hashtag_terms[2]
    /\ Len(result) = 2
    /\ filter_events(before, arg, <<hashtag_terms[1]>>).returned = <<result[1]>>
    /\ filter_events(before, arg, <<hashtag_terms[2]>>).returned = <<result[2]>>

\* t is '#' followed by one or more word characters.
IsHashtag(t) ==
    Len(t) >= 2 /\ t[1] = "#" /\ \A i \in 2..Len(t) : IsWord(t[i])

\* The term is empty or white space, or has an empty piece between its
\* commas, or has no comma and white space within.
Degenerate(term) ==
    \/ Strip(term) = <<>>
    \/ HasComma(term) /\ \E p \in Pieces(term) : Strip(p) = <<>>
    \/ ~HasComma(term) /\ \E i \in 1..Len(Strip(term)) : IsSpace(Strip(term)[i])

\* C28: a group that holds a tag which is not '#' followed by word characters
\* is satisfied by no event.  An empty or white-space term gives the group
\* {'#'}, a term with an empty piece gives a group with '#' in it, and a term
\* without a comma and with white space within gives one tag, that white
\* space in it.  With only such terms filter_events returns the empty list.
C28_DegenerateTagsMatchNothing ==
    (pc = "filtered" /\ hashtag_terms # <<>>) =>
        /\ \A k \in 1..Len(hashtag_terms) :
              (\E t \in _parse_hashtag_groups(hashtag_terms)[k] : ~IsHashtag(t))
                  => \A i \in 1..Len(arg) :
                        ~(_parse_hashtag_groups(hashtag_terms)[k]
                              \subseteq DescriptionTags(arg[i]))
        /\ \A k \in 1..Len(hashtag_terms) :
              /\ Strip(hashtag_terms[k]) = <<>>
                    => _parse_hashtag_groups(hashtag_terms)[k] = {<<"#">>}
              /\ (HasComma(hashtag_terms[k])
                    /\ \E p \in Pieces(hashtag_terms[k]) : Strip(p) = <<>>)
                    => <<"#">> \in _parse_hashtag_groups(hashtag_terms)[k]
              /\ (~HasComma(hashtag_terms[k])
                    /\ \E i \in 1..Len(Strip(hashtag_terms[k])) :
                          IsSpace(Strip(hashtag_terms[k])[i]))
                    => \E t \in _parse_hashtag_groups(hashtag_terms)[k] :
                          /\ _parse_hashtag_groups(hashtag_terms)[k] = {t}
                          /\ \E i \in 1..Len(t) : IsSpace(t[i])
        /\ (\A k \in 1..Len(hashtag_terms) : Degenerate(hashtag_terms[k]))
              => result = <<>>

\* Only an empty term and a term with an empty piece were given, for events
\* of which one has the tag the second term names: nothing was returned.
C28_Witness ==
    /\ pc = "filtered"
    /\ hashtag_terms = << <<>>, <<"#", "a", ",">> >>
    /\ \E i \in 1..Len(arg) : <<"#", "a">> \in DescriptionTags(arg[i])
    /\ result = <<>>

\* C29: filter_events changes nothing but the hashtags field of the events it
\* returns: the list it was given keeps its length and the order of its
\* elements, an event it does not return keeps its hashtags field, and no
\* event's summary, start, end, description, location or uid changes.
C29_OnlyHashtagsOfMatchesChange ==
    pc = "filtered" =>
        /\ input = arg
        /\ Len(events) = Len(before)
        /\ \A r \in 1..Len(events) :
              /\ events[r] = [before[r] EXCEPT !.hashtags = events[r].hashtags]
              /\ r \notin Range(result) => events[r].hashtags = before[r].hashtags

\* Of two events whose hashtags fields did not hold the tags of their
\* descriptions, one was returned with its field assigned and the other was
\* left as it was.
C29_Witness ==
    /\ pc = "filtered"
    /\ Len(arg) = 2 /\ Len(result) = 1
    /\ \A i \in 1..2 :
          before[arg[i]].hashtags # extract_hashtags(before[arg[i]].description)
    /\ events[result[1]].hashtags # before[result[1]].hashtags
    /\ \E i \in 1..2 : /\ arg[i] # result[1]
                        /\ before[arg[i]].description # NoneVal
                        /\ events[arg[i]] = before[arg[i]]

----------------------------------------------------------------------------
(* Properties of the pipeline of main (checked under SpecCli).             *)

\* The steps of the trace with one of these names.
StepsNamed(names) == {i \in 1..Len(trace) : trace[i].step \in names}

\* The try block of main was entered, and the date range was parsed.
RangeParsed ==
    /\ called = "main" /\ raised # "UsageError"
    /\ parse_date_range(params.date, now).raised = "none"

\* What fetch returns in this run when it does not fail.
FetchedNow == FetcherFetch(params, world.entries, date_range)

\* The events after the hashtag filter, when there are search terms.
FilteredNow ==
    IF params.search # <<>>
    THEN filter_events(FetchedNow.heap, FetchedNow.returned, params.search)
    ELSE FetchedNow

\* C26: an exporter, to a file or to the terminal, is invoked only after the
\* date range was parsed, the events were fetched with the parsed bounds and,
\* when there is a search term, filtered, in that order, and only with a list
\* of events that is not empty.  When the list is empty after fetching and
\* filtering, the run ends with exit code 0 and no exporter is invoked.
C26_ExportOnlyAfterPipelineAndNonEmpty ==
    called = "main" =>
        /\ StepsNamed({"export", "terminal"}) # {} =>
              /\ Len(trace) >= 3
              /\ trace[1] = Step("parse_date_range", <<>>)
              /\ date_range = parse_date_range(params.date, now).returned
              /\ trace[2].step = "fetcher"
              /\ trace[3] = Step("fetch", date_range)
              /\ IF params.search # <<>>
                 THEN /\ trace[4] = Step("filter_events", <<>>)
                      /\ \A i \in StepsNamed({"export", "terminal"}) : i > 4
                 ELSE /\ StepsNamed({"filter_events"}) = {}
                      /\ \A i \in StepsNamed({"export", "terminal"}) : i > 3
              /\ result # <<>>
              /\ result = FilteredNow.returned
              /\ events = FilteredNow.heap
        /\ ( /\ RangeParsed
             /\ world.fails \notin {"fetcher", "fetch"}
             /\ FilteredNow.returned = <<>> )
              => /\ exit_code = 0 /\ raised = "none"
                 /\ StepsNamed({"export", "terminal"}) = {}

\* A run with a search term wrote a file and printed to the terminal, the
\* filter having left out one of the events fetched.
C26_Witness ==
    /\ called = "main"
    /\ Len(trace) = 6
    /\ trace[4].step = "filter_events"
    /\ trace[5].step = "export" /\ trace[6].step = "terminal"
    /\ result # <<>>
    /\ exit_code = 0

\* The step that failed in this run: the parsing of the date range, or the
\* step of the trace that the world makes fail.
FailedSteps ==
    (IF parse_date_range(params.date, now).raised # "none" THEN {1} ELSE {})
        \cup StepsNamed({world.fails})

\* The steps that are due after a fetch of events: the filter when there is a
\* search term, the export to a file when there are a path and a known format,
\* and the output to the terminal.
DueSteps ==
    (IF params.search # <<>> THEN {"filter_events"} ELSE {})
        \cup (IF Truthy(params.write) /\ Truthy(export)
                   /\ Lower(export) \in Formats
               THEN {"export"} ELSE {})
        \cup (IF terminal THEN {"terminal"} ELSE {})

\* C27: when the parsing of the date range, the making of the fetcher, the
\* fetch or an export fails, the run ends as a command-line error with a
\* non-zero exit code and the failing step is the last one begun; after an
\* invalid -d nothing is fetched or written.  A run in which nothing fails
\* ends with exit code 0, and it ends before a step that is due only when
\* there are no events.
C27_FailureEndsRunWithError ==
    (called = "main" /\ raised # "UsageError") =>
        /\ FailedSteps # {} =>
              /\ raised = "ClickException" /\ exit_code # 0
              /\ FailedSteps = {Len(trace)}
        /\ parse_date_range(params.date, now).raised # "none" =>
              /\ trace = <<Step("parse_date_range", <<>>)>>
              /\ message = parse_date_range(params.date, now).message
        /\ FailedSteps = {} =>
              /\ raised = "none" /\ exit_code = 0
              /\ \/ result = <<>> /\ StepsNamed({"export", "terminal"}) = {}
                 \/ /\ result # <<>>
                    /\ \A name \in DueSteps : StepsNamed({name}) # {}
        /\ exit_code = 0 <=> FailedSteps = {}

\* The export to a file failed in a run that was also to print to the
\* terminal: the run ended with an error and nothing was printed.
C27_Witness ==
    /\ called = "main"
    /\ world.fails = "export"
    /\ terminal
    /\ trace # <<>>
    /\ trace[Len(trace)].step = "export"
    /\ raised = "ClickException" /\ exit_code = 1

\* C30: every event of the pipeline has hashtags = extract_hashtags(description):
\* the events as the fetcher returns them have, the hashtag filter leaves the
\* events as they were fetched, and the events handed to an exporter have.
C30_HashtagsAreThoseOfTheDescription ==
    (RangeParsed /\ world.fails \notin {"fetcher", "fetch"}) =>
        /\ \A r \in 1..Len(FetchedNow.heap) :
              FetchedNow.heap[r].hashtags
                  = extract_hashtags(FetchedNow.heap[r].description)
        /\ FilteredNow.heap = FetchedNow.heap
        /\ events = FetchedNow.heap
        /\ \A k \in 1..Len(result) :
              events[result[k]].hashtags
                  = extract_hashtags(events[result[k]].description)

\* A run fetched an event with a tag in its description, filtered by that tag
\* and handed the event to an exporter.
C30_Witness ==
    /\ called = "main"
    /\ StepsNamed({"filter_events"}) # {}
    /\ StepsNamed({"export", "terminal"}) # {}
    /\ \E k \in 1..Len(result) : events[result[k]].hashtags = << <<"#", "a">> >>

====
